---------------------------- MODULE Spec2Model ----------------------------
(***************************************************************************)
(* A model of src/src/extract_claude_logs.py: the single-pass correlators  *)
(* extract_conversation (with extract_subagent_conversation and             *)
(* find_subagent_files) and extract_bash_commands, with the text helpers   *)
(* they call.                                                              *)
(*                                                                         *)
(* Representation.  A Python string is a sequence of tokens.  A token is   *)
(* one whitespace character (" ", "\n", "\t") or one run of non-whitespace *)
(* characters the code never looks inside for the logs considered (a word, *)
(* a punctuation mark, a fixed marker).  A JSON object read with .get is a *)
(* record whose absent keys hold the default the code passes to .get.  The *)
(* timestamp of the i-th line of a file is i, and the empty timestamp      *)
(* string "" is 0.                                                         *)
(***************************************************************************)
EXTENDS Integers, Sequences, FiniteSets, TLC

(***************************************************************************)
(* Python string operations on token sequences.                            *)
(***************************************************************************)
Whitespace == {" ", "\n", "\t"}

Min(S) == CHOOSE x \in S : \A y \in S : x <= y

Max(S) == CHOOSE x \in S : \A y \in S : x >= y

\* s.strip()
Strip(s) ==
    LET keep == {i \in 1..Len(s) : s[i] \notin Whitespace}
    IN  IF keep = {} THEN <<>> ELSE SubSeq(s, Min(keep), Max(keep))

\* bool(s and s.strip())
Truthy(s) == Strip(s) # <<>>

\* pat in s
Contains(s, pat) ==
    \E i \in 1..(Len(s) - Len(pat) + 1) : SubSeq(s, i, i + Len(pat) - 1) = pat

\* sep.join(parts)
RECURSIVE Join(_, _)
Join(sep, parts) ==
    IF parts = <<>> THEN <<>>
    ELSE IF Len(parts) = 1 THEN parts[1]
    ELSE parts[1] \o sep \o Join(sep, Tail(parts))

\* s.split("\n")[0]
FirstLine(s) ==
    LET nl == {i \in 1..Len(s) : s[i] = "\n"}
    IN  IF nl = {} THEN s ELSE SubSeq(s, 1, Min(nl) - 1)

\* s.split("\n")
RECURSIVE SplitLines(_)
SplitLines(s) ==
    LET nl == {i \in 1..Len(s) : s[i] = "\n"}
    IN  IF nl = {} THEN <<s>>
        ELSE <<SubSeq(s, 1, Min(nl) - 1)>> \o SplitLines(SubSeq(s, Min(nl) + 1, Len(s)))

(***************************************************************************)
(* Content blocks of a message ("content" is a string, a list of blocks or *)
(* anything else).  Every block is a record with the same fields; a field  *)
(* a block type does not carry holds the .get default.                     *)
(***************************************************************************)
NoInput == <<>>

Block(type) ==
    [type |-> type, text |-> <<>>, text_null |-> FALSE, name |-> "", id |-> "",
     input |-> NoInput, tool_use_id |-> "", content |-> <<>>, thinking |-> <<>>]

TextBlock(t) == [Block("text") EXCEPT !.text = t]

\* a text block whose "text" is the JSON null (text_null: the value under
\* "text" is no string)
NullTextBlock == [Block("text") EXCEPT !.text_null = TRUE]

ThinkingBlock(t) == [Block("thinking") EXCEPT !.thinking = t]

ToolUse(name, id, input) == [Block("tool_use") EXCEPT !.name = name, !.id = id, !.input = input]

ToolResult(id, content) == [Block("tool_result") EXCEPT !.tool_use_id = id, !.content = content]

StrContent(t) == [kind |-> "str", text |-> t, items |-> <<>>]

ListContent(items) == [kind |-> "list", text |-> <<>>, items |-> items]

\* a content that is neither a string nor a list; text holds str(content)
OtherContent(literal) == [kind |-> "other", text |-> literal, items |-> <<>>]

\* A tool input is an ordered JSON object: a list of <<key, kind, value>>
\* triples.  The value is a list of strings; kind "str" marks a JSON string
\* (the list holds it alone), kind "list" a JSON list of strings.
StrField(key, t) == <<key, "str", <<t>>>>

ListField(key, l) == <<key, "list", l>>

\* input.get(key, "") for a string field
InputGet(input, key) ==
    LET at == {i \in 1..Len(input) : input[i][1] = key}
    IN  IF at = {} THEN <<>> ELSE input[Max(at)][3][1]

\* input.get(key, []) for a list field
InputGetList(input, key) ==
    LET at == {i \in 1..Len(input) : input[i][1] = key}
    IN  IF at = {} THEN <<>> ELSE input[Max(at)][3]

\* json.dumps of a string: quotes, with the control characters escaped
JsonString(t) ==
    <<"\"">> \o
    [i \in 1..Len(t) |-> IF t[i] = "\n" THEN "\\n" ELSE IF t[i] = "\t" THEN "\\t" ELSE t[i]]
    \o <<"\"">>

Indent(n) == [i \in 1..n |-> " "]

\* json.dumps of a list of strings nested at one level, indent=2
JsonList(l) ==
    IF l = <<>> THEN <<"[]">>
    ELSE <<"[", "\n">>
         \o Join(<<",", "\n">>, [i \in 1..Len(l) |-> Indent(4) \o JsonString(l[i])])
         \o <<"\n">> \o Indent(2) \o <<"]">>

\* json.dumps(tool_input, indent=2)
JsonDumps(input) ==
    IF input = <<>> THEN <<"{}">>
    ELSE <<"{", "\n">>
         \o Join(<<",", "\n">>,
                 [i \in 1..Len(input) |->
                    Indent(2) \o JsonString(<<input[i][1]>>) \o <<":", " ">>
                    \o (IF input[i][2] = "list" THEN JsonList(input[i][3])
                        ELSE JsonString(input[i][3][1]))])
         \o <<"\n", "}">>

\* the two parts _extract_text_content adds for a tool_use block
\* ("<tool>" stands for the wrench sign of the source's literal)
ToolUseParts(item) ==
    << <<"\n", "<tool>", " ", "Using", " ", "tool:", " ", item.name>>,
       <<"Input:", " ">> \o JsonDumps(item.input) \o <<"\n">> >>

\* a flattener that renders no tool invocation, whatever the mode
BlockPartsTextOnly(item, detailed) ==
    IF item.type = "text" THEN <<item.text>> ELSE <<>>

\* a flattener that takes the text of a tool_result block too
BlockPartsKeepsResults(item, detailed) ==
    IF item.type \in {"text", "tool_result"} THEN <<item.text>>
    ELSE IF detailed /\ item.type = "tool_use" THEN ToolUseParts(item)
    ELSE <<>>

\* the parts one block contributes to the flattened text
BlockParts(item, detailed) ==
    IF item.type = "text" THEN <<item.text>>
    ELSE IF item.type = "tool_result" THEN <<>>
    ELSE IF detailed /\ item.type = "tool_use" THEN ToolUseParts(item)
    ELSE <<>>

RECURSIVE TextParts(_, _)
TextParts(items, detailed) ==
    IF items = <<>> THEN <<>>
    ELSE BlockParts(Head(items), detailed) \o TextParts(Tail(items), detailed)

\* _extract_text_content(content, detailed), when the call returns
ExtractTextContent(content, detailed) ==
    IF content.kind = "str" THEN content.text
    ELSE IF content.kind = "list" THEN Join(<<"\n">>, TextParts(content.items, detailed))
    ELSE content.text

\* the call raises: the join of line 965 meets a part that is no string, the
\* value item.get("text", "") gave for a text block (line 958)
TextRaises(content, detailed) ==
    /\ content.kind = "list"
    /\ \E i \in 1..Len(content.items) :
          content.items[i].type = "text" /\ content.items[i].text_null

\* the text a caller goes on with: when the call raises the caller's except
\* ends the handling of the record, as an empty text does at the caller's
\* "if text and text.strip()"
TextOrNone(content, detailed) ==
    IF TextRaises(content, detailed) THEN <<>> ELSE ExtractTextContent(content, detailed)


(***************************************************************************)
(* Plan detection.  "<rec>" stands for the record sign and "<dot>" for the *)
(* middle dot of the source's literals.  A saved-plan path is one token.   *)
(***************************************************************************)
ApprovalBanner == <<"User", " ", "approved", " ", "Claude's", " ", "plan">>

SavedTo == <<"Plan", " ", "saved", " ", "to:">>

\* tokens that match ~[/\\]\.claude[/\\]plans[/\\] at their start
PlansDirTokens == {"~/.claude/plans/p.md", "~/.claude/plans/q.md", "~/.claude/plans/p"}

\* tokens that match ~[/\\]\.claude[/\\]plans[/\\][^\s<dot>]+\.md as a whole
PlanPathTokens == {"~/.claude/plans/p.md", "~/.claude/plans/q.md"}

\* the index of the first token at or after i that is not whitespace
\* (Len(s) + 1 when there is none): what \s* skips
SkipWs(s, i) ==
    LET rest == {k \in i..Len(s) : s[k] \notin Whitespace}
    IN  IF rest = {} THEN Len(s) + 1 ELSE Min(rest)

\* the positions where lit occurs in s
Occurrences(s, lit) ==
    {i \in 1..(Len(s) - Len(lit) + 1) : SubSeq(s, i, i + Len(lit) - 1) = lit}

\* the positions where "lit \s* <a token of toks>" matches in s
MatchesThen(s, lit, toks) ==
    {i \in Occurrences(s, lit) :
        LET k == SkipWs(s, i + Len(lit)) IN k <= Len(s) /\ s[k] \in toks}

\* _contains_plan_approval(text)
ContainsPlanApproval(text) ==
    \/ \E i \in Occurrences(text, <<"<rec>">>) :
          LET k == SkipWs(text, i + 1)
          IN  SubSeq(text, k, k + Len(ApprovalBanner) - 1) = ApprovalBanner
    \/ MatchesThen(text, SavedTo, PlansDirTokens) # {}

\* len(l) - len(l.lstrip())
LeadingWs(l) == SkipWs(l, 1) - 1

NoPlan == [found |-> FALSE, title |-> <<>>, path |-> <<>>, content |-> <<>>]

\* lines 1036-1068 of _parse_plan_content: title and de-indented body
PlanFromRemaining(path, remaining) ==
    LET lines     == SplitLines(remaining)
        nonblank  == {i \in 1..Len(lines) : Strip(lines[i]) # <<>>}
        first     == Min(nonblank)
        rest      == SubSeq(lines, first + 1, Len(lines))
        nonempty  == {i \in 1..Len(rest) : Strip(rest[i]) # <<>>}
        minIndent == Min({LeadingWs(rest[i]) : i \in nonempty})
        cut       == IF nonempty = {} THEN rest
                     ELSE [i \in 1..Len(rest) |->
                             IF Len(rest[i]) >= minIndent
                             THEN SubSeq(rest[i], minIndent + 1, Len(rest[i]))
                             ELSE rest[i]]
    IN  [found |-> TRUE, title |-> Strip(lines[first]), path |-> <<path>>,
         content |-> Strip(Join(<<"\n">>, cut))]

\* _parse_plan_content(text)
ParsePlanContent(text) ==
    LET hits == MatchesThen(text, SavedTo, PlanPathTokens)
    IN  IF hits = {} THEN NoPlan
        ELSE
        LET path   == text[SkipWs(text, Min(hits) + Len(SavedTo))]
            at     == Min({i \in 1..Len(text) : text[i] = path})
            after  == Strip(SubSeq(text, at + 1, Len(text)))
            nl     == {i \in 1..Len(after) : after[i] = "\n"}
            skip   == IF after # <<>> /\ after[1] = "<dot>"
                      THEN (IF nl = {} THEN <<>> ELSE SubSeq(after, Min(nl) + 1, Len(after)))
                      ELSE after
            remaining == Strip(skip)
        IN  IF remaining = <<>> THEN NoPlan ELSE PlanFromRemaining(path, remaining)

PlanTitleMax == 100

\* tokens a line can start with that begin with "#"
HashTokens == {"#", "##"}

\* the title loop of _extract_plan_from_exit_tool over the stripped lines
RECURSIVE ExitPlanTitle(_)
ExitPlanTitle(lines) ==
    IF lines = <<>> THEN <<"Untitled", " ", "Plan">>
    ELSE LET line == Strip(Head(lines))
         IN  IF Len(line) >= 2 /\ line[1] = "#" /\ line[2] = " "
             THEN Strip(SubSeq(line, 3, Len(line)))
             ELSE IF line # <<>> /\ line[1] \notin HashTokens
             THEN SubSeq(line, 1, IF Len(line) < PlanTitleMax THEN Len(line) ELSE PlanTitleMax)
             ELSE ExitPlanTitle(Tail(lines))

\* a search that stops at the first tool_use block of the content
ExtractPlanFromFirstToolUse(entry) ==
    LET items == entry.content.items
        uses  == {i \in 1..Len(items) : items[i].type = "tool_use"}
        hits  == {i \in uses :
                    /\ i = Min(uses)
                    /\ items[i].name = "ExitPlanMode"
                    /\ InputGet(items[i].input, "plan") # <<>>}
    IN  IF entry.content.kind # "list" \/ hits = {} THEN NoPlan
        ELSE LET plan == InputGet(items[Min(hits)].input, "plan")
             IN  [found   |-> TRUE,
                  title   |-> ExitPlanTitle(SplitLines(Strip(plan))),
                  path    |-> IF entry.slug # "" THEN <<"~/.claude/plans/", entry.slug, ".md">>
                              ELSE <<"~/.claude/plans/unknown.md">>,
                  content |-> plan]

\* _extract_plan_from_exit_tool(entry): the first ExitPlanMode tool_use whose
\* plan is not empty
ExtractPlanFromExitTool(entry) ==
    LET items == entry.content.items
        hits  == {i \in 1..Len(items) :
                    /\ items[i].type = "tool_use"
                    /\ items[i].name = "ExitPlanMode"
                    /\ InputGet(items[i].input, "plan") # <<>>}
    IN  IF entry.content.kind # "list" \/ hits = {} THEN NoPlan
        ELSE LET plan == InputGet(items[Min(hits)].input, "plan")
             IN  [found   |-> TRUE,
                  title   |-> ExitPlanTitle(SplitLines(Strip(plan))),
                  path    |-> IF entry.slug # "" THEN <<"~/.claude/plans/", entry.slug, ".md">>
                              ELSE <<"~/.claude/plans/unknown.md">>,
                  content |-> plan]

(***************************************************************************)
(* Questions and answers.                                                  *)
(***************************************************************************)
NoQuestions == [found |-> FALSE, tool_use_id |-> "", questions |-> <<>>]

\* _extract_questions_from_content(content): the first AskUserQuestion
ExtractQuestionsFromContent(content) ==
    LET items == content.items
        hits  == {i \in 1..Len(items) :
                    items[i].type = "tool_use" /\ items[i].name = "AskUserQuestion"}
    IN  IF content.kind # "list" \/ hits = {} THEN NoQuestions
        ELSE [found |-> TRUE, tool_use_id |-> items[Min(hits)].id,
              questions |-> InputGetList(items[Min(hits)].input, "questions")]

NoAnswers == [found |-> FALSE, raised |-> FALSE, tool_use_id |-> "", answers |-> <<>>]

\* _extract_answers_from_entry(entry): the first tool_result block with an
\* identifier, when toolUseResult holds answers.  toolUseResult is absent
\* ("none", read as {}), an object ("dict") or a string ("str": its .get
\* raises AttributeError at the first tool_result block).
ExtractAnswersFromEntry(entry) ==
    LET items   == entry.content.items
        results == {i \in 1..Len(items) : items[i].type = "tool_result"}
        hits    == {i \in results : items[i].tool_use_id # ""}
    IN  IF entry.content.kind # "list" \/ results = {} THEN NoAnswers
        ELSE IF entry.toolUseResult.kind = "str" THEN [NoAnswers EXCEPT !.raised = TRUE]
        ELSE IF entry.toolUseResult.answers = <<>> \/ hits = {} THEN NoAnswers
        ELSE [found |-> TRUE, raised |-> FALSE, tool_use_id |-> items[Min(hits)].tool_use_id,
              answers |-> entry.toolUseResult.answers]

(***************************************************************************)
(* Log lines.  A line is invalid JSON (valid = FALSE) or a decoded value,   *)
(* which is a JSON object or not (object = FALSE: a list, a number, ...);  *)
(* has_message says "message" is a key of the entry and its value an       *)
(* object, and role, content, model and usage are read from that object.   *)
(***************************************************************************)
NoUsage ==
    [input_tokens |-> 0, output_tokens |-> 0, cache_read_input_tokens |-> 0,
     cache_creation_input_tokens |-> 0]

NoToolUseResult == [kind |-> "none", answers |-> <<>>]

Entry(type) ==
    [valid |-> TRUE, object |-> TRUE, type |-> type, has_message |-> FALSE, role |-> "",
     content |-> StrContent(<<>>), model |-> "", usage |-> NoUsage,
     toolUseResult |-> NoToolUseResult, subtype |-> "", durationMs |-> 0,
     text |-> <<>>, hookEvent |-> "", hookName |-> "", version |-> "",
     gitBranch |-> "", cwd |-> "", slug |-> ""]

Malformed == [Entry("") EXCEPT !.valid = FALSE]

\* a line that decodes to a value with no .get, such as [] or 3
NotAnObject == [Entry("") EXCEPT !.object = FALSE]

UserEntry(content) ==
    [Entry("user") EXCEPT !.has_message = TRUE, !.role = "user", !.content = content,
                          !.version = "2.1.42", !.gitBranch = "main", !.cwd = "/test/project"]

AssistantEntry(content, model) ==
    [Entry("assistant") EXCEPT !.has_message = TRUE, !.role = "assistant",
                               !.content = content, !.model = model,
                               !.usage = [input_tokens |-> 10, output_tokens |-> 2,
                                          cache_read_input_tokens |-> 5,
                                          cache_creation_input_tokens |-> 0],
                               !.version = "2.1.42", !.gitBranch = "main",
                               !.cwd = "/test/project"]

SystemEntry(subtype, text, durationMs) ==
    [Entry("system") EXCEPT !.subtype = subtype, !.text = text, !.durationMs = durationMs]

ProgressEntry(hookEvent, hookName) ==
    [Entry("progress") EXCEPT !.hookEvent = hookEvent, !.hookName = hookName]

SnapshotEntry == Entry("file-history-snapshot")

(***************************************************************************)
(* Conversation entries: one record type for every role; a field a role    *)
(* does not carry holds an empty value, and has_metadata says the entry    *)
(* has a "metadata" key.                                                   *)
(***************************************************************************)
NoMetadata ==
    [model |-> "", input_tokens |-> 0, output_tokens |-> 0, cache_read_tokens |-> 0,
     cwd |-> "", git_branch |-> ""]

NoStatsContent ==
    [models_used |-> <<>>, total_input_tokens |-> 0, total_output_tokens |-> 0,
     total_cache_read_tokens |-> 0, total_cache_creation_tokens |-> 0,
     turn_count |-> 0, tool_use_count |-> 0, tools_used |-> <<>>,
     subagent_count |-> 0, total_duration_ms |-> 0, session_version |-> "",
     git_branch |-> ""]

Message(role, content, timestamp) ==
    [role |-> role, content |-> content, timestamp |-> timestamp,
     plan_title |-> <<>>, plan_path |-> <<>>, plan_content |-> <<>>,
     questions |-> <<>>, answers |-> <<>>,
     description |-> <<>>, subagent_type |-> <<>>, agent_id |-> "", model |-> "",
     messages |-> <<>>, has_metadata |-> FALSE, metadata |-> NoMetadata,
     stats |-> NoStatsContent]

\* the dicts extract_subagent_conversation appends
SubMessage(role, content, timestamp) ==
    [role |-> role, content |-> content, timestamp |-> timestamp]

PlanMessage(content, plan, timestamp) ==
    [Message("plan", content, timestamp) EXCEPT
        !.plan_title = plan.title, !.plan_path = plan.path, !.plan_content = plan.content]

\* _extract_message_metadata(entry)
ExtractMessageMetadata(entry) ==
    [model |-> entry.model, input_tokens |-> entry.usage.input_tokens,
     output_tokens |-> entry.usage.output_tokens,
     cache_read_tokens |-> entry.usage.cache_read_input_tokens,
     cwd |-> entry.cwd, git_branch |-> entry.gitBranch]

\* conversation.append(e)
\* an output list that grows at its head
EmitFirst(conversation, e) == <<e>> \o conversation

Emit(conversation, e) == Append(conversation, e)

(***************************************************************************)
(* Thinking blocks (lines 143-152 and 472-482): one entry for each         *)
(* thinking block whose text is not empty, when the flag is set and the    *)
(* content is a list.                                                      *)
(***************************************************************************)
\* the thinking blocks without the test of line 477 on their text
ThinkingBlocksAll(items) ==
    LET th == SelectSeq(items, LAMBDA item : item.type = "thinking")
    IN  [i \in 1..Len(th) |-> th[i].thinking]

RECURSIVE ThinkingTexts(_)
ThinkingTexts(items) ==
    IF items = <<>> THEN <<>>
    ELSE (IF Head(items).type = "thinking" /\ Head(items).thinking # <<>>
          THEN <<Head(items).thinking>> ELSE <<>>)
         \o ThinkingTexts(Tail(items))

\* thinking blocks surfaced whatever the flag
ThinkingOfAnyFlag(content, include_thinking) ==
    IF content.kind = "list" THEN ThinkingTexts(content.items) ELSE <<>>

ThinkingOf(content, include_thinking) ==
    IF include_thinking /\ content.kind = "list" THEN ThinkingTexts(content.items) ELSE <<>>

(***************************************************************************)
(* Side files.  The directory <session>/subagents holds files named by     *)
(* their stems, <<"agent-", id>>; a file is a list of lines.               *)
(***************************************************************************)
\* a stem taken whole as the agent id
StemAsAgentId(stem) == stem[1]

\* f.stem.replace("agent-", "", 1)
AgentIdOfStem(stem) == IF stem[1] = "agent-" THEN stem[2] ELSE stem[1]

\* find_subagent_files(session_path): agent id -> stem, for the files of the
\* directory dir (a function from stems to files; empty when there is none)
FindSubagentFiles(dir) ==
    [a \in {AgentIdOfStem(stem) : stem \in DOMAIN dir} |->
        CHOOSE stem \in DOMAIN dir : AgentIdOfStem(stem) = a]

\* a flattening of the side file that never renders tool invocations
SubagentLineMessagesBrief(entry, ts, detailed, include_thinking) ==
    IF ~entry.valid \/ ~entry.object THEN <<>>
    ELSE IF entry.type = "user" /\ entry.has_message /\ entry.role = "user" THEN
        LET text == TextOrNone(entry.content, FALSE)
        IN  IF Truthy(text) THEN <<SubMessage("user", text, ts)>> ELSE <<>>
    ELSE IF entry.type = "assistant" /\ entry.has_message /\ entry.role = "assistant" THEN
        LET th   == ThinkingOf(entry.content, include_thinking)
            text == TextOrNone(entry.content, FALSE)
        IN  [i \in 1..Len(th) |-> SubMessage("thinking", th[i], ts)]
            \o (IF Truthy(text) THEN <<SubMessage("assistant", text, ts)>> ELSE <<>>)
    ELSE <<>>

\* the messages one line of a side file adds (lines 119-163)
SubagentLineMessages(entry, ts, detailed, include_thinking) ==
    IF ~entry.valid \/ ~entry.object THEN <<>>
    ELSE IF entry.type = "user" /\ entry.has_message /\ entry.role = "user" THEN
        LET text == TextOrNone(entry.content, FALSE)
        IN  IF Truthy(text) THEN <<SubMessage("user", text, ts)>> ELSE <<>>
    ELSE IF entry.type = "assistant" /\ entry.has_message /\ entry.role = "assistant" THEN
        LET th   == ThinkingOf(entry.content, include_thinking)
            text == TextOrNone(entry.content, detailed)
        IN  [i \in 1..Len(th) |-> SubMessage("thinking", th[i], ts)]
            \o (IF Truthy(text) THEN <<SubMessage("assistant", text, ts)>> ELSE <<>>)
    ELSE <<>>

RECURSIVE SubagentMessages(_, _, _, _)
SubagentMessages(lines, n, detailed, include_thinking) ==
    IF n = 0 THEN <<>>
    ELSE SubagentMessages(lines, n - 1, detailed, include_thinking)
         \o SubagentLineMessages(lines[n], n, detailed, include_thinking)

\* the model of the first assistant line that names one (lines 138-139)
SubagentModel(lines) ==
    LET named == {i \in 1..Len(lines) :
                    /\ lines[i].valid /\ lines[i].object /\ lines[i].type = "assistant"
                    /\ lines[i].has_message /\ lines[i].role = "assistant"
                    /\ lines[i].model # ""}
    IN  IF named = {} THEN "" ELSE lines[Min(named)].model

\* extract_subagent_conversation(subagent_path, detailed, include_thinking)
\* for the file of stem `stem` holding `lines`
ExtractSubagentConversation(stem, lines, detailed, include_thinking) ==
    [agent_id |-> AgentIdOfStem(stem),
     model    |-> SubagentModel(lines),
     messages |-> SubagentMessages(lines, Len(lines), detailed, include_thinking)]

(***************************************************************************)
(* extract_conversation: the state of one pass (lines 304-324) and what    *)
(* one line does to it.  The state of a pass is the record                 *)
(*   [conversation, pending_questions, pending_task_tools, stats].         *)
(***************************************************************************)
InitStats ==
    [models_used |-> {}, total_input_tokens |-> 0, total_output_tokens |-> 0,
     total_cache_read_tokens |-> 0, total_cache_creation_tokens |-> 0,
     turn_count |-> 0, tool_use_count |-> 0, tools_used |-> <<>>,
     subagent_count |-> 0, total_duration_ms |-> 0, session_version |-> "",
     git_branch |-> ""]

EmptyTable == <<>>

\* table[key] = value (a later write replaces an earlier one)
Put(table, key, value) == (key :> value) @@ table

\* del table[key]
Remove(table, key) == [k \in DOMAIN table \ {key} |-> table[k]]

\* Counter: counter[name] += 1
CountUp(counter, name) ==
    IF name \in DOMAIN counter THEN [counter EXCEPT ![name] = @ + 1]
    ELSE (name :> 1) @@ counter

\* lines 333-336: version and branch, from the first entry that has a version
CaptureVersion(stats, entry) ==
    IF stats.session_version = ""
    THEN [stats EXCEPT !.session_version = entry.version, !.git_branch = entry.gitBranch]
    ELSE stats

\* re.search(r'agentId:\s*(\w+)', text): tokens that are runs of \w
WordTokens == {"a1", "a2", "Found", "done", "x"}

AgentIdMatches(text) == MatchesThen(text, <<"agentId:">>, WordTokens)

\* group(1) of the first match
AgentIdOf(text) == text[SkipWs(text, Min(AgentIdMatches(text)) + 1)]

\* a resolution that does not look the agent id up in subagent_files
SubagentEntriesUnchecked(task_info, agent_id, subagent_files, dir, ts, detailed, include_thinking) ==
    << [Message("subagent", <<>>, ts) EXCEPT
           !.description = task_info.description,
           !.subagent_type = task_info.subagent_type,
           !.agent_id = agent_id,
           !.messages =
               IF agent_id \in DOMAIN subagent_files
               THEN SubagentMessages(dir[subagent_files[agent_id]],
                                     Len(dir[subagent_files[agent_id]]),
                                     detailed, include_thinking)
               ELSE <<>>] >>

\* lines 359-376: the subagent entry of a result that names agent_id, when
\* its side file exists
SubagentEntries(task_info, agent_id, subagent_files, dir, ts, detailed, include_thinking) ==
    IF agent_id \in DOMAIN subagent_files
    THEN LET sub_conv == ExtractSubagentConversation(
                            subagent_files[agent_id], dir[subagent_files[agent_id]],
                            detailed, include_thinking)
         IN  << [Message("subagent", <<>>, ts) EXCEPT
                    !.description = task_info.description,
                    !.subagent_type = task_info.subagent_type,
                    !.agent_id = sub_conv.agent_id,
                    !.model = sub_conv.model,
                    !.messages = sub_conv.messages] >>
    ELSE <<>>

\* a resolution that does not ask whether the identifier is pending
ResolveTaskUnregistered(st, item, subagent_files, dir, ts, detailed, include_thinking) ==
    IF item.type = "tool_result"
    THEN LET task_info == IF item.tool_use_id \in DOMAIN st.pending_task_tools
                          THEN st.pending_task_tools[item.tool_use_id]
                          ELSE [description |-> <<>>, subagent_type |-> <<>>]
             new == IF AgentIdMatches(item.content) = {} THEN <<>>
                    ELSE SubagentEntries(task_info, AgentIdOf(item.content), subagent_files,
                                         dir, ts, detailed, include_thinking)
         IN  [st EXCEPT
                !.conversation = IF new = <<>> THEN @ ELSE Emit(@, new[1]),
                !.stats.subagent_count = IF new # <<>> /\ detailed THEN @ + 1 ELSE @,
                !.pending_task_tools = Remove(@, item.tool_use_id)]
    ELSE st

\* a resolution that keeps the invocation pending when no subagent entry
\* comes of the result
ResolveTaskKeepsUnresolved(st, item, subagent_files, dir, ts, detailed, include_thinking) ==
    IF item.type = "tool_result" /\ item.tool_use_id \in DOMAIN st.pending_task_tools
    THEN LET new == IF AgentIdMatches(item.content) = {} THEN <<>>
                    ELSE SubagentEntries(st.pending_task_tools[item.tool_use_id],
                                         AgentIdOf(item.content), subagent_files, dir,
                                         ts, detailed, include_thinking)
         IN  [st EXCEPT
                !.conversation = IF new = <<>> THEN @ ELSE Emit(@, new[1]),
                !.stats.subagent_count = IF new # <<>> /\ detailed THEN @ + 1 ELSE @,
                !.pending_task_tools = IF new = <<>> THEN @ ELSE Remove(@, item.tool_use_id)]
    ELSE st

\* a resolution that counts every resolved result, with an entry or without
ResolveTaskCountsResolved(st, item, subagent_files, dir, ts, detailed, include_thinking) ==
    IF item.type = "tool_result" /\ item.tool_use_id \in DOMAIN st.pending_task_tools
    THEN LET new == IF AgentIdMatches(item.content) = {} THEN <<>>
                    ELSE SubagentEntries(st.pending_task_tools[item.tool_use_id],
                                         AgentIdOf(item.content), subagent_files, dir,
                                         ts, detailed, include_thinking)
         IN  [st EXCEPT
                !.conversation = IF new = <<>> THEN @ ELSE Emit(@, new[1]),
                !.stats.subagent_count = IF detailed THEN @ + 1 ELSE @,
                !.pending_task_tools = Remove(@, item.tool_use_id)]
    ELSE st

\* lines 346-377 for one block of a user message
ResolveTask(st, item, subagent_files, dir, ts, detailed, include_thinking) ==
    IF item.type = "tool_result" /\ item.tool_use_id \in DOMAIN st.pending_task_tools
    THEN LET new == IF AgentIdMatches(item.content) = {} THEN <<>>
                    ELSE SubagentEntries(st.pending_task_tools[item.tool_use_id],
                                         AgentIdOf(item.content), subagent_files, dir,
                                         ts, detailed, include_thinking)
         IN  [st EXCEPT
                !.conversation = IF new = <<>> THEN @ ELSE Emit(@, new[1]),
                !.stats.subagent_count = IF new # <<>> /\ detailed THEN @ + 1 ELSE @,
                !.pending_task_tools = Remove(@, item.tool_use_id)]
    ELSE st

\* lines 344-377: the loop over the blocks
RECURSIVE ResolveTasks(_, _, _, _, _, _, _)
ResolveTasks(st, items, subagent_files, dir, ts, detailed, include_thinking) ==
    IF items = <<>> THEN st
    ELSE ResolveTasks(
            ResolveTask(st, Head(items), subagent_files, dir, ts, detailed, include_thinking),
            Tail(items), subagent_files, dir, ts, detailed, include_thinking)

\* an entry of role plan for every text that holds the approval marker
TextMessagePlanOnMarker(role, text, entry, ts, with_metadata) ==
    LET plan == ParsePlanContent(text)
    IN  IF ContainsPlanApproval(text) THEN PlanMessage(text, plan, ts)
        ELSE IF with_metadata
        THEN [Message(role, text, ts) EXCEPT !.has_metadata = TRUE,
                                             !.metadata = ExtractMessageMetadata(entry)]
        ELSE Message(role, text, ts)

\* lines 396-418 and 487-515: the entry for a text that is not blank
TextMessage(role, text, entry, ts, with_metadata) ==
    LET plan == ParsePlanContent(text)
    IN  IF ContainsPlanApproval(text) /\ plan.found THEN PlanMessage(text, plan, ts)
        ELSE IF with_metadata
        THEN [Message(role, text, ts) EXCEPT !.has_metadata = TRUE,
                                             !.metadata = ExtractMessageMetadata(entry)]
        ELSE Message(role, text, ts)

\* a user branch that counts a turn for every record that reaches line 393
UserTextCountsAll(st, entry, ts) ==
    LET text == TextOrNone(entry.content, FALSE)
    IN  IF Truthy(text)
        THEN [st EXCEPT !.conversation = Emit(@, TextMessage("user", text, entry, ts, FALSE)),
                        !.stats.turn_count = @ + 1]
        ELSE [st EXCEPT !.stats.turn_count = @ + 1]

\* lines 393-419
UserText(st, entry, ts) ==
    LET text == TextOrNone(entry.content, FALSE)
    IN  IF Truthy(text)
        THEN [st EXCEPT !.conversation = Emit(@, TextMessage("user", text, entry, ts, FALSE)),
                        !.stats.turn_count = @ + 1]
        ELSE st

\* lines 339-419: a line of type "user" with a message
UserLine(st, entry, subagent_files, dir, ts, detailed, include_thinking) ==
    IF entry.role # "user" THEN st
    ELSE
    LET s1  == IF entry.content.kind = "list"
               THEN ResolveTasks(st, entry.content.items, subagent_files, dir, ts,
                                 detailed, include_thinking)
               ELSE st
        ans == ExtractAnswersFromEntry(entry)
    IN  IF ans.raised THEN s1
        ELSE IF ans.found /\ ans.tool_use_id \in DOMAIN s1.pending_questions
        THEN [s1 EXCEPT
                !.conversation =
                    Emit(@, [Message("qa", <<>>, ts) EXCEPT
                                !.questions = s1.pending_questions[ans.tool_use_id],
                                !.answers = ans.answers]),
                !.pending_questions = Remove(@, ans.tool_use_id)]
        ELSE UserText(s1, entry, ts)

\* a count that goes up for every block of the content
RECURSIVE CountToolsEveryBlock(_, _)
CountToolsEveryBlock(stats, items) ==
    IF items = <<>> THEN stats
    ELSE CountToolsEveryBlock(
            [stats EXCEPT !.tool_use_count = @ + 1,
                          !.tools_used = IF Head(items).type = "tool_use"
                                         THEN CountUp(@, Head(items).name) ELSE @],
            Tail(items))

\* lines 437-441: the tool_use blocks counted into the statistics
RECURSIVE CountTools(_, _)
CountTools(stats, items) ==
    IF items = <<>> THEN stats
    ELSE CountTools(
            IF Head(items).type = "tool_use"
            THEN [stats EXCEPT !.tool_use_count = @ + 1,
                               !.tools_used = CountUp(@, Head(items).name)]
            ELSE stats,
            Tail(items))

\* lines 429-431
AddModel(stats, entry) ==
    [stats EXCEPT !.models_used = IF entry.model # "" THEN @ \cup {entry.model} ELSE @]

\* lines 428-441
AssistantStats(stats, entry) ==
    LET s1 == [AddModel(stats, entry) EXCEPT
                 !.total_input_tokens = @ + entry.usage.input_tokens,
                 !.total_output_tokens = @ + entry.usage.output_tokens,
                 !.total_cache_read_tokens = @ + entry.usage.cache_read_input_tokens,
                 !.total_cache_creation_tokens = @ + entry.usage.cache_creation_input_tokens]
    IN  IF entry.content.kind = "list" THEN CountTools(s1, entry.content.items) ELSE s1

\* lines 444-452: every Task tool_use is registered under its identifier
RECURSIVE RegisterTasks(_, _)
RegisterTasks(pending, items) ==
    IF items = <<>> THEN pending
    ELSE RegisterTasks(
            IF Head(items).type = "tool_use" /\ Head(items).name = "Task"
            THEN Put(pending, Head(items).id,
                     [description   |-> InputGet(Head(items).input, "description"),
                      subagent_type |-> InputGet(Head(items).input, "subagent_type")])
            ELSE pending,
            Tail(items))

\* lines 472-482
ThinkingMessages(content, ts, include_thinking) ==
    LET th == ThinkingOf(content, include_thinking)
    IN  [i \in 1..Len(th) |-> Message("thinking", th[i], ts)]

\* lines 484-515
AssistantText(st, entry, ts, detailed) ==
    LET text == TextOrNone(entry.content, detailed)
    IN  IF Truthy(text)
        THEN [st EXCEPT !.conversation =
                            Emit(@, TextMessage("assistant", text, entry, ts, detailed))]
        ELSE st

RECURSIVE EmitAll(_, _)
EmitAll(conversation, es) ==
    IF es = <<>> THEN conversation ELSE EmitAll(Emit(conversation, Head(es)), Tail(es))

\* lines 472-515: the thinking entries, then the entry of the text
AssistantBody(st, entry, ts, detailed, include_thinking) ==
    AssistantText(
        [st EXCEPT !.conversation =
            EmitAll(@, ThinkingMessages(entry.content, ts, include_thinking))],
        entry, ts, detailed)

\* an ExitPlanMode branch without the continue of line 470
AssistantEmitNoContinue(st, entry, ts, detailed, include_thinking) ==
    LET plan == ExtractPlanFromExitTool(entry)
        s1   == IF plan.found
                THEN [st EXCEPT !.conversation =
                                    Emit(@, PlanMessage(plan.content, plan, ts))]
                ELSE st
    IN  AssistantBody(s1, entry, ts, detailed, include_thinking)

\* lines 459-515: the plan entry of an ExitPlanMode call, and nothing else
\* for that line (the continue of line 470); the body otherwise
AssistantEmit(st, entry, ts, detailed, include_thinking) ==
    LET plan == ExtractPlanFromExitTool(entry)
    IN  IF plan.found
        THEN [st EXCEPT !.conversation = Emit(@, PlanMessage(plan.content, plan, ts))]
        ELSE AssistantBody(st, entry, ts, detailed, include_thinking)

\* lines 422-515: a line of type "assistant" with a message
AssistantLine(st, entry, ts, detailed, include_thinking) ==
    IF entry.role # "assistant" THEN st
    ELSE
    LET qa == ExtractQuestionsFromContent(entry.content)
        s1 == [st EXCEPT
                 !.stats = IF detailed THEN AssistantStats(@, entry) ELSE @,
                 !.pending_task_tools =
                     IF entry.content.kind = "list"
                     THEN RegisterTasks(@, entry.content.items) ELSE @,
                 !.pending_questions =
                     IF qa.found THEN Put(@, qa.tool_use_id, qa.questions) ELSE @]
    IN  AssistantEmit(s1, entry, ts, detailed, include_thinking)

\* f"{duration_ms / 1000:.1f}" for a duration that is not halfway between
\* two tenths of a second
FormatSeconds(ms) ==
    LET tenths == (ms + 50) \div 100
    IN  <<ToString(tenths \div 10), ".", ToString(tenths % 10)>>

\* lines 528-536: the text of a system entry
SystemText(entry) ==
    IF entry.subtype = "turn_duration"
    THEN <<"Turn", " ", "completed", " ", "in", " ">> \o FormatSeconds(entry.durationMs) \o <<"s">>
    ELSE IF entry.subtype = "local_command" THEN <<"Command:", " ">> \o entry.text
    ELSE IF entry.text # <<>> THEN entry.text
    ELSE <<IF entry.subtype = "" THEN "system" ELSE entry.subtype>>

\* a system entry whatever the mode
SystemLineAnyMode(st, entry, ts, detailed) ==
    LET s1 == IF entry.subtype = "turn_duration"
              THEN [st EXCEPT !.stats.total_duration_ms = @ + entry.durationMs]
              ELSE st
    IN  IF SystemText(entry) = <<>> THEN s1
        ELSE [s1 EXCEPT !.conversation =
                 Emit(@, Message("system", <<"<info>", " ", "System:", " ">> \o SystemText(entry), ts))]

\* lines 518-543: a line of type "system" ("<info>" stands for the sign of
\* the source's literal)
SystemLine(st, entry, ts, detailed) ==
    LET s1 == IF entry.subtype = "turn_duration"
              THEN [st EXCEPT !.stats.total_duration_ms = @ + entry.durationMs]
              ELSE st
    IN  IF ~detailed \/ SystemText(entry) = <<>> THEN s1
        ELSE [s1 EXCEPT !.conversation =
                 Emit(@, Message("system", <<"<info>", " ", "System:", " ">> \o SystemText(entry), ts))]

\* lines 546-555: a line of type "progress" in detailed mode ("<gear>"
\* stands for the sign of the source's literal)
ProgressLine(st, entry, ts) ==
    IF entry.hookEvent = "" THEN st
    ELSE [st EXCEPT !.conversation =
             Emit(@, Message("system",
                             <<"<gear>", " ", "Hook:", " ", entry.hookEvent, " ", "(",
                               entry.hookName, ")">>, ts))]

\* the model names the logs use, in the order sorted() gives them
ModelNames == <<"claude-haiku", "claude-opus">>

\* sorted(stats["models_used"])
SortedModels(models) == SelectSeq(ModelNames, LAMBDA m : m \in models)

\* lines 567-576: the stats entry
StatsMessage(stats) ==
    [Message("stats", <<>>, 0) EXCEPT
        !.stats = [stats EXCEPT !.models_used = SortedModels(@)]]

\* a stats entry whenever detailed is set
ReturnedWhenDetailed(conversation, stats, detailed) ==
    IF detailed THEN Emit(conversation, StatsMessage(stats)) ELSE conversation

Returned(conversation, stats, detailed) ==
    IF detailed /\ conversation # <<>> THEN Emit(conversation, StatsMessage(stats))
    ELSE conversation

\* the branch of lines 338-557 an entry takes
Branch(entry, detailed) ==
    IF ~entry.valid THEN "invalid"
    ELSE IF ~entry.object THEN "not_object"
    ELSE IF entry.type = "user" /\ entry.has_message THEN "user"
    ELSE IF entry.type = "assistant" /\ entry.has_message THEN "assistant"
    ELSE IF entry.type = "system" THEN "system"
    ELSE IF entry.type = "progress" /\ detailed THEN "progress"
    ELSE "none"

\* a loop body that reports a line it cannot decode as an entry
StepLineReportsInvalid(st, entry, ts, subagent_files, dir, detailed, include_thinking) ==
    LET branch == Branch(entry, detailed)
        s0     == [st EXCEPT !.stats = CaptureVersion(@, entry)]
    IN  CASE branch = "invalid"   ->
                [st EXCEPT !.conversation = Emit(@, Message("system", <<"invalid">>, ts))]
          [] branch = "not_object" -> st
          [] branch = "user"      -> UserLine(s0, entry, subagent_files, dir, ts,
                                              detailed, include_thinking)
          [] branch = "assistant" -> AssistantLine(s0, entry, ts, detailed, include_thinking)
          [] branch = "system"    -> SystemLine(s0, entry, ts, detailed)
          [] branch = "progress"  -> ProgressLine(s0, entry, ts)
          [] OTHER                -> s0

\* lines 329-562: what the line `entry`, the ts-th of the log, does to the
\* state of the pass
StepLine(st, entry, ts, subagent_files, dir, detailed, include_thinking) ==
    LET branch == Branch(entry, detailed)
        s0     == [st EXCEPT !.stats = CaptureVersion(@, entry)]
    IN  CASE branch = "invalid"   -> st
          [] branch = "not_object" -> st
          [] branch = "user"      -> UserLine(s0, entry, subagent_files, dir, ts,
                                              detailed, include_thinking)
          [] branch = "assistant" -> AssistantLine(s0, entry, ts, detailed, include_thinking)
          [] branch = "system"    -> SystemLine(s0, entry, ts, detailed)
          [] branch = "progress"  -> ProgressLine(s0, entry, ts)
          [] OTHER                -> s0

InitLocals ==
    [conversation |-> <<>>, pending_questions |-> EmptyTable,
     pending_task_tools |-> EmptyTable, stats |-> InitStats]

\* the state of a pass over the first n lines of a log, from fresh locals
RECURSIVE RunPass(_, _, _, _, _)
RunPass(lines, n, dir, detailed, include_thinking) ==
    IF n = 0 THEN InitLocals
    ELSE StepLine(RunPass(lines, n - 1, dir, detailed, include_thinking), lines[n], n,
                  FindSubagentFiles(dir), dir, detailed, include_thinking)

(***************************************************************************)
(* extract_tool_operations: the buckets, the filter and the summaries.     *)
(***************************************************************************)
\* TOOL_CATEGORIES (lines 18-23)
TOOL_CATEGORIES ==
    [file |-> {"Read", "Write", "Edit"}, search |-> {"Grep", "Glob"},
     web |-> {"WebFetch", "WebSearch"}, git |-> {}]

\* ALL_EXTRACTABLE_TOOLS (line 25)
ALL_EXTRACTABLE_TOOLS == {"Read", "Write", "Edit", "Grep", "Glob", "WebFetch", "WebSearch"}

\* lines 734-739
EmptyToolOps ==
    [file   |-> [Read |-> <<>>, Write |-> <<>>, Edit |-> <<>>],
     search |-> [Grep |-> <<>>, Glob |-> <<>>],
     web    |-> [WebFetch |-> <<>>, WebSearch |-> <<>>],
     git    |-> <<>>]

\* item.lower() for the filters used
LowerName(name) ==
    IF name = "Git" THEN "git" ELSE IF name = "File" THEN "file"
    ELSE IF name = "Bash" THEN "bash" ELSE name

\* lines 741-758: the categories and the tools a filter selects; an empty
\* filter (or None) selects them all
ExtractCategories(filter) ==
    IF filter = <<>> THEN {"file", "search", "web", "git"}
    ELSE {LowerName(filter[i]) : i \in {k \in 1..Len(filter) :
                                            LowerName(filter[k]) \in DOMAIN TOOL_CATEGORIES}}

\* a filter that restricts nothing
ExtractToolsUnfiltered(filter) == ALL_EXTRACTABLE_TOOLS

ExtractTools(filter) ==
    IF filter = <<>> THEN ALL_EXTRACTABLE_TOOLS
    ELSE UNION {IF LowerName(filter[i]) \in DOMAIN TOOL_CATEGORIES
                THEN TOOL_CATEGORIES[LowerName(filter[i])]
                ELSE IF filter[i] \in ALL_EXTRACTABLE_TOOLS THEN {filter[i]} ELSE {} :
                i \in 1..Len(filter)}

\* _is_git_command(command)
IsGitCommand(command) ==
    LET cmd == Strip(command)
    IN  Len(cmd) >= 2 /\ cmd[1] = "git" /\ cmd[2] \in {" ", "\t"}

PreviewMax == 500

OutputPreviewMax == 300

MatchesPreviewMax == 5

\* a result: `keys` are the keys the dict has, and a key it does not have
\* holds an empty value.  The output of a tool is a string written one
\* character a token, so that Len is len().
NoSummary ==
    [keys |-> {}, status |-> "", success |-> FALSE, content |-> <<>>, lines |-> 0,
     size_bytes |-> 0, output |-> <<>>, matched_count |-> 0, matches_preview |-> <<>>,
     preview |-> <<>>, output_preview |-> <<>>]

\* line 857: {"status": "no_result"}
NoResult == [NoSummary EXCEPT !.keys = {"status"}, !.status = "no_result"]

\* output[:n] + "..." if len(output) > n else output
Truncated(output, n) ==
    IF Len(output) > n THEN SubSeq(output, 1, n) \o <<".", ".", ".">> ELSE output

\* _normalize_tool_result(result_content) for a content that is a string:
\* str() of a string is the string
NormalizeToolResult(result_content) == [output |-> result_content]

\* _summarize_tool_result(tool_name, result, tool_input, detailed) for a
\* result of _normalize_tool_result, which has an output and no error
SummarizeToolResult(tool_name, result, d) ==
    LET output == result.output
        base  == [NoSummary EXCEPT !.keys = {"success", "error"}, !.success = TRUE]
        found == SelectSeq(SplitLines(output), LAMBDA l : Strip(l) # <<>>)
    IN  IF tool_name = "Read" THEN
            IF d THEN [base EXCEPT !.keys = @ \cup {"content"}, !.content = output]
            ELSE [base EXCEPT
                    !.keys = @ \cup {"lines", "size_bytes"},
                    !.lines = IF output # <<>>
                              THEN Len(SelectSeq(output, LAMBDA c : c = "\n")) + 1 ELSE 0,
                    !.size_bytes = Len(output)]
        ELSE IF tool_name \in {"Write", "Edit"} THEN
            IF d THEN [base EXCEPT !.keys = @ \cup {"content"}, !.content = output]
            ELSE [base EXCEPT !.keys = @ \cup {"status"}, !.status = "Success"]
        ELSE IF tool_name \in {"Grep", "Glob"} THEN
            IF d THEN [base EXCEPT !.keys = @ \cup {"output"}, !.output = output]
            ELSE [base EXCEPT
                    !.keys = @ \cup {"matched_count", "matches_preview"},
                    !.matched_count = IF output # <<>> THEN Len(found) ELSE 0,
                    !.matches_preview =
                        IF output # <<>>
                        THEN SubSeq(found, 1, Min({Len(found), MatchesPreviewMax}))
                        ELSE <<>>]
        ELSE IF tool_name \in {"WebFetch", "WebSearch"} THEN
            IF d THEN [base EXCEPT !.keys = @ \cup {"output"}, !.output = output]
            ELSE [base EXCEPT !.keys = @ \cup {"preview"},
                              !.preview = Truncated(output, PreviewMax)]
        ELSE IF tool_name = "Bash" THEN
            IF d THEN [base EXCEPT !.keys = @ \cup {"output"}, !.output = output]
            ELSE [base EXCEPT !.keys = @ \cup {"output_preview"},
                              !.output_preview = Truncated(output, OutputPreviewMax)]
        ELSE base

\* lines 795-802 and 809-816: the data kept for an invocation
ToolOp(item, is_git, context, timestamp) ==
    [tool_name |-> item.name, is_git |-> is_git,
     context |-> Join(<<"\n", "\n">>, context), timestamp |-> timestamp,
     tool_use_id |-> item.id, input |-> item.input, result |-> NoSummary]

\* pending_tool_ops[id] = op: a dict keeps the place of a key it has
PutOp(pending, op) ==
    IF \E k \in 1..Len(pending) : pending[k].tool_use_id = op.tool_use_id
    THEN [k \in 1..Len(pending) |->
            IF pending[k].tool_use_id = op.tool_use_id THEN op ELSE pending[k]]
    ELSE Append(pending, op)

\* lines 842-849 and 859-866: the bucket of an operation
Categorize(ops, op) ==
    IF op.is_git THEN [ops EXCEPT !.git = Append(@, op)]
    ELSE IF op.tool_name \in TOOL_CATEGORIES.file
    THEN [ops EXCEPT !.file[op.tool_name] = Append(@, op)]
    ELSE IF op.tool_name \in TOOL_CATEGORIES.search
    THEN [ops EXCEPT !.search[op.tool_name] = Append(@, op)]
    ELSE IF op.tool_name \in TOOL_CATEGORIES.web
    THEN [ops EXCEPT !.web[op.tool_name] = Append(@, op)]
    ELSE ops

\* lines 783-817: the blocks of an assistant message, on the state
\* [current_context, pending_tool_ops]
RECURSIVE ToolsAssistantBlocks(_, _, _, _)
ToolsAssistantBlocks(st, items, timestamp, filter) ==
    IF items = <<>> THEN st
    ELSE LET b == Head(items)
             s1 == IF b.type = "text"
                   THEN [st EXCEPT !.current_context =
                            IF Strip(b.text) # <<>> THEN Append(@, Strip(b.text)) ELSE @]
                   ELSE IF b.type = "tool_use" /\ b.name \in ExtractTools(filter)
                   THEN [current_context |-> <<>>,
                         pending_tool_ops |->
                             PutOp(st.pending_tool_ops,
                                   ToolOp(b, FALSE, st.current_context, timestamp))]
                   ELSE IF /\ b.type = "tool_use" /\ b.name = "Bash"
                           /\ "git" \in ExtractCategories(filter)
                           /\ IsGitCommand(InputGet(b.input, "command"))
                   THEN [current_context |-> <<>>,
                         pending_tool_ops |->
                             PutOp(st.pending_tool_ops,
                                   ToolOp(b, TRUE, st.current_context, timestamp))]
                   ELSE st
         IN  ToolsAssistantBlocks(s1, Tail(items), timestamp, filter)

\* a resolution that leaves the resolved operation in the pending table
RECURSIVE ToolsUserBlocksKeepsPending(_, _, _)
ToolsUserBlocksKeepsPending(st, items, d) ==
    IF items = <<>> THEN st
    ELSE LET b    == Head(items)
             hits == {k \in 1..Len(st.pending_tool_ops) :
                        st.pending_tool_ops[k].tool_use_id = b.tool_use_id}
             s1   == IF b.type = "tool_result" /\ hits # {}
                     THEN LET op == [st.pending_tool_ops[Min(hits)] EXCEPT
                                       !.result = SummarizeToolResult(
                                                     st.pending_tool_ops[Min(hits)].tool_name,
                                                     NormalizeToolResult(b.content), d)]
                          IN  [st EXCEPT !.tool_ops = Categorize(@, op)]
                     ELSE st
         IN  ToolsUserBlocksKeepsPending(s1, Tail(items), d)

\* lines 826-849: the blocks of a user message, on the state
\* [pending_tool_ops, tool_ops]
RECURSIVE ToolsUserBlocks(_, _, _)
ToolsUserBlocks(st, items, d) ==
    IF items = <<>> THEN st
    ELSE LET b    == Head(items)
             hits == {k \in 1..Len(st.pending_tool_ops) :
                        st.pending_tool_ops[k].tool_use_id = b.tool_use_id}
             s1   == IF b.type = "tool_result" /\ hits # {}
                     THEN LET k  == Min(hits)
                              op == [st.pending_tool_ops[k] EXCEPT
                                       !.result = SummarizeToolResult(
                                                     st.pending_tool_ops[k].tool_name,
                                                     NormalizeToolResult(b.content), d)]
                          IN  [pending_tool_ops |->
                                   SubSeq(st.pending_tool_ops, 1, k - 1)
                                   \o SubSeq(st.pending_tool_ops, k + 1,
                                             Len(st.pending_tool_ops)),
                               tool_ops |-> Categorize(st.tool_ops, op)]
                     ELSE st
         IN  ToolsUserBlocks(s1, Tail(items), d)

\* lines 854-866: the operations that have no result
RECURSIVE FlushPending(_, _)
FlushPending(ops, pending) ==
    IF pending = <<>> THEN ops
    ELSE FlushPending(Categorize(ops, [Head(pending) EXCEPT !.result = NoResult]),
                      Tail(pending))

(***************************************************************************)
(* The files on disk: session logs, and for each session the directory of  *)
(* its side files.  The extractor object keeps nothing between calls; the  *)
(* variables below jsonl_path are the locals of the running call.          *)
(***************************************************************************)
VARIABLES
    files,               \* session path -> the lines of its log
    fails_at,            \* session path -> the number of lines that can be read
                         \* before reading the file raises (0: it cannot be
                         \* opened), or -1 when the whole file can be read
    subagent_dirs,       \* session path -> (stem -> the lines of the side file)
    pc,                  \* "idle", "reading", "returned"
    jsonl_path, detailed, include_thinking,      \* the arguments of the call
    lineno,              \* the lines of the log read so far
    conversation, pending_questions, pending_task_tools, stats, subagent_files,
    returned,            \* (path, flags) -> what the first call with them returned
    repeat,              \* the running call repeats an earlier one
    separated,           \* the (path, flags) with a pass over another log since
                         \* their first call returned
    entries, recno, blockno,     \* extract_bash_commands: the decoded lines, the
                                 \* entries and the blocks of the next one done
    current_context, pending_bash_commands, bash_commands,
    tool_filter, pending_tool_ops, tool_ops,     \* extract_tool_operations: its
                                 \* argument, the invocations that wait for a
                                 \* result, and the buckets it returns
    midnight,            \* the lines of a log written before the day changes
    outputs,             \* the files of the output directory
    method, overwrite, by_day,   \* extract_multiple and its two siblings: the
                                 \* method run and its options
    run, position,       \* the runs started, and the indices the running one
                         \* has done
    success, skipped,
    written,             \* (run, index) -> the run has written a file for it
    content_arg,         \* _extract_text_content called on its own: its content
    text_result,         \* and what the call gave
    tree,                \* rename_conversations: the files under root_dir,
                         \* <<directory, name>> -> what the name holds
    tree_before,         \* the tree when the call started
    execute,             \* its argument
    to_rename,           \* the rest of sorted(files)
    success_count, skipped_count, error_count

vars == <<files, fails_at, subagent_dirs, pc, jsonl_path, detailed, include_thinking, lineno,
          conversation, pending_questions, pending_task_tools, stats, subagent_files,
          returned, repeat, separated,
          entries, recno, blockno, current_context, pending_bash_commands, bash_commands,
          tool_filter, pending_tool_ops, tool_ops,
          midnight, outputs, method, overwrite, by_day, run, position, success, skipped,
          written, content_arg, text_result,
          tree, tree_before, execute, to_rename, success_count, skipped_count, error_count>>

disk == <<files, fails_at, subagent_dirs>>

args == <<jsonl_path, detailed, include_thinking>>

\* the locals of extract_conversation, and those of extract_bash_commands
pass == <<detailed, include_thinking, lineno, conversation, pending_questions,
          pending_task_tools, stats, subagent_files, returned, repeat, separated>>

bash == <<entries, recno, blockno, current_context, pending_bash_commands, bash_commands>>

\* those of extract_tool_operations that it shares with no other method
tools == <<tool_filter, pending_tool_ops, tool_ops>>

\* the state of a call of _extract_text_content on its own
flat == <<content_arg, text_result>>

\* the directory tree and the locals of rename_conversations
renaming == <<tree, tree_before, execute, to_rename, success_count, skipped_count,
              error_count>>

\* the output directory, and the state of extract_multiple and its siblings
multi == <<midnight, outputs, method, overwrite, by_day, run, position, success, skipped,
           written>>

\* the lines used in the logs
UserSays == UserEntry(StrContent(<<"list", " ", "files">>))

TaskCall ==
    AssistantEntry(
        ListContent(<<TextBlock(<<"Let", " ", "me", " ", "explore.">>),
                      ToolUse("Task", "toolu_1",
                              <<StrField("description", <<"Explore", " ", "codebase">>),
                                StrField("subagent_type", <<"Explore">>)>>)>>),
        "claude-opus")

\* a user line with the result of toolu_1, which names the delegate a1, and
\* a text block
TaskResult ==
    UserEntry(
        ListContent(<<ToolResult("toolu_1",
                                 <<"Found", " ", "5", " ", "files.", "\n", "agentId:", " ",
                                   "a1", " ", "(for", " ", "resuming)">>),
                      TextBlock(<<"thanks">>)>>))

\* a user line that holds only tool results: of toolu_1, naming no delegate,
\* and of toolu_2
ToolResultOnly ==
    UserEntry(ListContent(<<ToolResult("toolu_1", <<"Done.">>),
                            ToolResult("toolu_2", <<"a.py", "\n", "b.py">>)>>))

\* two reasoning blocks, the second with an empty text, a text and a Bash call
BashCall ==
    AssistantEntry(
        ListContent(<<ThinkingBlock(<<"Let", " ", "me", " ", "think">>), ThinkingBlock(<<>>),
                      TextBlock(<<"Let", " ", "me", " ", "check.">>),
                      ToolUse("Bash", "toolu_2", <<StrField("command", <<"ls">>)>>)>>),
        "claude-haiku")

ExitPlanCall ==
    AssistantEntry(
        ListContent(<<ThinkingBlock(<<"plan", " ", "it">>),
                      ToolUse("ExitPlanMode", "toolu_2",
                              <<StrField("plan", <<"#", " ", "Title", "\n", "body">>)>>)>>),
        "claude-opus")

TurnDuration == SystemEntry("turn_duration", <<>>, 1234)

HookProgress == ProgressEntry("SessionStart", "SessionStart:startup")

Lines ==
    {UserSays, TaskCall, TaskResult, ToolResultOnly, BashCall, ExitPlanCall,
     TurnDuration, HookProgress, Malformed}

MaxLines == 3

LogsUpTo(n) == UNION {[1..k -> Lines] : k \in 0..n}

\* side files of the delegate a1: a user line, then an assistant line with a
\* reasoning block and a text
SideFull ==
    <<UserEntry(StrContent(<<"Find", " ", "files">>)),
      AssistantEntry(ListContent(<<ThinkingBlock(<<"where">>), TextBlock(<<"Found", " ", "5">>)>>),
                     "claude-haiku")>>

NoSideFiles == <<>>

SideDirs ==
    {NoSideFiles,
     (<<"agent-", "a1">> :> <<>>),
     (<<"agent-", "a1">> :> SideFull)}

Flags == BOOLEAN \X BOOLEAN

NotReturned == [done |-> FALSE, value |-> <<>>]

\* no call of _extract_text_content on its own has returned
NotCalled == [called |-> FALSE, raised |-> FALSE, value |-> <<>>]

Idle ==
    /\ pc = "idle"
    /\ jsonl_path = "" /\ detailed = FALSE /\ include_thinking = FALSE
    /\ lineno = 0
    /\ conversation = <<>>
    /\ pending_questions = EmptyTable
    /\ pending_task_tools = EmptyTable
    /\ stats = InitStats
    /\ subagent_files = <<>>
    /\ repeat = FALSE
    /\ separated = {}
    /\ entries = <<>> /\ recno = 0 /\ blockno = 0
    /\ current_context = <<>>
    /\ pending_bash_commands = <<>>
    /\ bash_commands = <<>>
    /\ tool_filter = <<>>
    /\ pending_tool_ops = <<>>
    /\ tool_ops = EmptyToolOps
    /\ outputs = {}
    /\ method = "" /\ overwrite = FALSE /\ by_day = FALSE
    /\ run = 0 /\ position = 0
    /\ success = 0 /\ skipped = 0
    /\ written = {}
    /\ text_result = NotCalled
    /\ tree_before = <<>> /\ execute = FALSE /\ to_rename = <<>>
    /\ success_count = 0 /\ skipped_count = 0 /\ error_count = 0

Init ==
    /\ tree = <<>>
    /\ content_arg = StrContent(<<>>)
    /\ files \in {("s1" :> log) : log \in LogsUpTo(MaxLines)}
    /\ fails_at = ("s1" :> -1)
    /\ subagent_dirs \in {("s1" :> dir) : dir \in SideDirs}
    /\ returned = [k \in {"s1"} \X Flags |-> NotReturned]
    /\ midnight = 0
    /\ Idle

\* what a call notes of the calls before it
NotePass(path, d, t) ==
    /\ repeat' = returned[<<path, <<d, t>>>>].done
    /\ separated' = separated \cup {k \in DOMAIN returned :
                                       returned[k].done /\ k[1] # path}

\* a call that starts with the pending Task table of the call before it
StartPassStale(path, d, t) ==
    /\ jsonl_path' = path
    /\ detailed' = d
    /\ include_thinking' = t
    /\ lineno' = 0
    /\ conversation' = <<>>
    /\ pending_questions' = EmptyTable
    /\ stats' = InitStats
    /\ subagent_files' = FindSubagentFiles(subagent_dirs[path])
    /\ pc' = "reading"
    /\ NotePass(path, d, t)
    /\ UNCHANGED <<renaming, flat, multi, tools, disk, returned, pending_task_tools, bash>>

\* lines 304-324: a call starts with fresh locals
StartPass(path, d, t) ==
    /\ jsonl_path' = path
    /\ detailed' = d
    /\ include_thinking' = t
    /\ lineno' = 0
    /\ conversation' = <<>>
    /\ pending_questions' = EmptyTable
    /\ pending_task_tools' = EmptyTable
    /\ stats' = InitStats
    /\ subagent_files' = FindSubagentFiles(subagent_dirs[path])
    /\ pc' = "reading"
    /\ NotePass(path, d, t)
    /\ UNCHANGED <<renaming, flat, multi, tools, disk, returned, bash>>

\* extract_conversation(jsonl_path, detailed, include_thinking) is called
Begin ==
    /\ pc = "idle"
    /\ \E path \in DOMAIN files, d \in BOOLEAN, t \in BOOLEAN : StartPass(path, d, t)

\* the line the loop of line 328 reads next
HasLine ==
    pc = "reading" /\ lineno < Len(files[jsonl_path]) /\ lineno # fails_at[jsonl_path]

entry == files[jsonl_path][lineno + 1]

Locals ==
    [conversation |-> conversation, pending_questions |-> pending_questions,
     pending_task_tools |-> pending_task_tools, stats |-> stats]

\* handling the entry raises an exception that is not a JSONDecodeError (the
\* except of line 561): the value is not an object (line 331), the
\* toolUseResult of a user entry with a tool_result block is a string (line
\* 1108), or the text of the record cannot be joined (lines 393 and 484; a
\* user record that carries answers reaches line 393 only when its question
\* is not pending, and is left out here)
Raises(e) ==
    /\ e.valid
    /\ \/ ~e.object
       \/ /\ e.object /\ e.type = "user" /\ e.has_message /\ e.role = "user"
          /\ \/ ExtractAnswersFromEntry(e).raised
             \/ ~ExtractAnswersFromEntry(e).found /\ TextRaises(e.content, FALSE)
       \/ /\ e.object /\ e.type = "assistant" /\ e.has_message /\ e.role = "assistant"
          /\ ~ExtractPlanFromExitTool(e).found
          /\ TextRaises(e.content, FALSE)

\* a loop that an exception of the handling of an entry ends
ReadLineAborting(branch) ==
    /\ HasLine
    /\ Branch(entry, detailed) = branch
    /\ LET st == StepLine(Locals, entry, lineno + 1, subagent_files,
                          subagent_dirs[jsonl_path], detailed, include_thinking)
       IN  /\ conversation' = st.conversation
           /\ pending_questions' = st.pending_questions
           /\ pending_task_tools' = st.pending_task_tools
           /\ stats' = st.stats
    /\ lineno' = lineno + 1
    /\ pc' = IF Raises(entry) THEN "returned" ELSE pc
    /\ UNCHANGED <<renaming, flat, multi, tools, disk, args, subagent_files, returned, repeat, separated, bash>>

\* one turn of the loop of line 328, for an entry that takes `branch`
ReadLine(branch) ==
    /\ HasLine
    /\ Branch(entry, detailed) = branch
    /\ LET st == StepLine(Locals, entry, lineno + 1, subagent_files,
                          subagent_dirs[jsonl_path], detailed, include_thinking)
       IN  /\ conversation' = st.conversation
           /\ pending_questions' = st.pending_questions
           /\ pending_task_tools' = st.pending_task_tools
           /\ stats' = st.stats
    /\ lineno' = lineno + 1
    /\ UNCHANGED <<renaming, flat, multi, tools, disk, pc, args, subagent_files, returned, repeat, separated, bash>>

HandleUser == ReadLine("user")

HandleAssistant == ReadLine("assistant")

HandleSystem == ReadLine("system")

HandleProgress == ReadLine("progress")

\* a line that is not valid JSON (line 559), a value that is not an object
\* (entry.get raises at line 331; line 561), or an entry no branch takes
SkipLine == ReadLine("invalid") \/ ReadLine("not_object") \/ ReadLine("none")

\* an end of the file that gives an empty subagent entry to every Task
\* invocation still pending
FinishFlushingPending ==
    /\ pc = "reading" /\ lineno = Len(files[jsonl_path]) /\ lineno # fails_at[jsonl_path]
    /\ conversation' =
          Returned(IF DOMAIN pending_task_tools = {} THEN conversation
                   ELSE Emit(conversation, Message("subagent", <<>>, lineno)),
                   stats, detailed)
    /\ pc' = "returned"
    /\ returned' = [returned EXCEPT ![<<jsonl_path, <<detailed, include_thinking>>>>] =
                        IF @.done THEN @ ELSE [done |-> TRUE, value |-> conversation']]
    /\ UNCHANGED <<renaming, flat, multi, tools, disk, args, lineno, pending_questions, pending_task_tools, stats,
                   subagent_files, repeat, separated, bash>>

\* lines 567-576: the end of the file
Finish ==
    /\ pc = "reading" /\ lineno = Len(files[jsonl_path]) /\ lineno # fails_at[jsonl_path]
    /\ conversation' = Returned(conversation, stats, detailed)
    /\ pc' = "returned"
    /\ returned' = [returned EXCEPT ![<<jsonl_path, <<detailed, include_thinking>>>>] =
                        IF @.done THEN @ ELSE [done |-> TRUE, value |-> conversation']]
    /\ UNCHANGED <<renaming, flat, multi, tools, disk, args, lineno, pending_questions, pending_task_tools, stats,
                   subagent_files, repeat, separated, bash>>

\* lines 564-576: open() or the iteration of line 328 raises; the except of
\* line 564 reports it and the call goes on at line 567 with the entries and
\* the statistics it has
ReadFails ==
    /\ pc = "reading" /\ lineno = fails_at[jsonl_path]
    /\ conversation' = Returned(conversation, stats, detailed)
    /\ pc' = "returned"
    /\ returned' = [returned EXCEPT ![<<jsonl_path, <<detailed, include_thinking>>>>] =
                        IF @.done THEN @ ELSE [done |-> TRUE, value |-> conversation']]
    /\ UNCHANGED <<renaming, flat, multi, tools, disk, args, lineno, pending_questions, pending_task_tools, stats,
                   subagent_files, repeat, separated, bash>>

Next ==
    \/ Begin
    \/ HandleUser
    \/ HandleAssistant
    \/ HandleSystem
    \/ HandleProgress
    \/ SkipLine
    \/ Finish

Spec == Init /\ [][Next]_vars

(***************************************************************************)
(* Calls one after another on the same extractor, over two sessions.  The  *)
(* session s1 has the side file of the delegate a1; s2 has none.           *)
(***************************************************************************)
PassLen == 3

PassLines == {TaskCall, TaskResult}

\* logs that end with a Task invocation waiting for its result, with
\* statistics counted, or with the result of an invocation they never saw
OtherLogs ==
    {<<TurnDuration, Malformed, HookProgress, TaskCall>>,
     <<UserSays, ExitPlanCall, BashCall, ToolResultOnly, TaskResult>>}

InitPasses ==
    /\ tree = <<>>
    /\ content_arg = StrContent(<<>>)
    /\ files \in {("s1" :> log) @@ ("s2" :> other) :
                      log \in [1..PassLen -> PassLines], other \in OtherLogs}
    /\ fails_at = ("s1" :> -1) @@ ("s2" :> -1)
    /\ subagent_dirs = ("s1" :> (<<"agent-", "a1">> :> SideFull)) @@ ("s2" :> NoSideFiles)
    /\ returned = [k \in {"s1", "s2"} \X Flags |-> NotReturned]
    /\ midnight = 0
    /\ Idle

\* the flags of the calls that follow the first one
LaterFlags == {<<TRUE, TRUE>>, <<FALSE, FALSE>>}

\* the next call on the extractor, once a call has returned
BeginAgain ==
    /\ pc = "returned"
    /\ \E path \in DOMAIN files, f \in LaterFlags : StartPass(path, f[1], f[2])

NextPasses == Next \/ BeginAgain

SpecPasses == InitPasses /\ [][NextPasses]_vars

(***************************************************************************)
(* extract_bash_commands (lines 578-702).  The loop over the entries is    *)
(* taken block by block: recno entries are done, and blockno blocks of     *)
(* the next one.                                                           *)
(***************************************************************************)
\* s.lower(), token by token, for the tokens with capitals that the logs use
LowerToken(t) ==
    CASE t = "Bash"       -> "bash"
      [] t = "No"         -> "no"
      [] t = "Permission" -> "permission"
      [] t = "Done."      -> "done."
      [] t = "Found"      -> "found"
      [] OTHER            -> t

Lower(s) == [i \in 1..Len(s) |-> LowerToken(s[i])]

\* lines 663-668
error_patterns ==
    << <<"command", " ", "not", " ", "found">>,
       <<"No", " ", "such", " ", "file", " ", "or", " ", "directory">>,
       <<"Permission", " ", "denied">>,
       <<"fatal:">> >>

\* lines 669-676: a failure marker in the first line of the result
HasError(result_content) ==
    LET first_line == IF result_content # <<>> THEN Lower(FirstLine(result_content))
                      ELSE <<>>
    IN  \E i \in 1..Len(error_patterns) : Contains(first_line, Lower(error_patterns[i]))

\* lines 594-601: the lines that decode, each with its timestamp
LoadEntries(lines) ==
    LET ok == SelectSeq([i \in 1..Len(lines) |-> i], LAMBDA i : lines[i].valid)
    IN  [n \in 1..Len(ok) |-> [timestamp |-> ok[n], entry |-> lines[ok[n]]]]

\* lines 620-623: a text block of an assistant message
AddContext(context, text) ==
    IF Strip(text) # <<>> THEN Append(context, Strip(text)) ELSE context

\* lines 624-638: the Bash invocation an item holds, if it holds one
IsBashCall(item) ==
    /\ item.type = "tool_use"
    /\ LowerToken(item.name) = "bash"
    /\ InputGet(item.input, "command") # <<>>

PendingCommand(item, context, timestamp) ==
    [command     |-> InputGet(item.input, "command"),
     context     |-> Join(<<"\n", "\n">>, context),
     timestamp   |-> timestamp,
     tool_use_id |-> item.id]

NoCommand == [command |-> <<>>, context |-> <<>>, timestamp |-> 0, tool_use_id |-> ""]

\* a pairing by the identifier alone
MatchPendingByIdOnly(pending, tool_use_id) ==
    LET hits == {i \in 1..Len(pending) :
                    tool_use_id # "" /\ pending[i].tool_use_id = tool_use_id}
        at   == IF hits # {} THEN Min(hits) ELSE 0
    IN  [matched |-> at # 0,
         cmd     |-> IF at # 0 THEN pending[at] ELSE NoCommand,
         pending |-> IF at = 0 THEN pending
                     ELSE [i \in 1..(Len(pending) - 1) |->
                             IF i < at THEN pending[i] ELSE pending[i + 1]]]

\* lines 678-688: the pending command a result is paired with, by its
\* identifier or else the oldest one, and the commands left pending
MatchPending(pending, tool_use_id) ==
    LET hits == IF tool_use_id # ""
                THEN {i \in 1..Len(pending) : pending[i].tool_use_id = tool_use_id}
                ELSE {}
        at   == IF hits # {} THEN Min(hits) ELSE IF pending # <<>> THEN 1 ELSE 0
    IN  [matched |-> at # 0,
         cmd     |-> IF at # 0 THEN pending[at] ELSE NoCommand,
         pending |-> [i \in 1..(Len(pending) - (IF at # 0 THEN 1 ELSE 0)) |->
                         IF i < at THEN pending[i] ELSE pending[i + 1]]]

\* lines 690-695
Successful(cmd) ==
    [command |-> cmd.command, context |-> cmd.context, timestamp |-> cmd.timestamp]

\* the entry the loop of line 607 is at, and its next block
bash_entry == entries[recno + 1].entry

InLoop == pc = "bash" /\ recno < Len(entries)

AssistantBlocks ==
    /\ InLoop
    /\ bash_entry.type = "assistant" /\ bash_entry.has_message
    /\ bash_entry.role = "assistant" /\ bash_entry.content.kind = "list"

UserBlocks ==
    /\ InLoop
    /\ bash_entry.type = "user" /\ bash_entry.has_message
    /\ bash_entry.content.kind = "list"

item == bash_entry.content.items[blockno + 1]

HasBlock == blockno < Len(bash_entry.content.items)

\* extract_bash_commands(jsonl_path) is called
BashStart ==
    /\ pc = "idle"
    /\ \E path \in DOMAIN files :
        /\ jsonl_path' = path
        /\ entries' = LoadEntries(files[path])
    /\ recno' = 0 /\ blockno' = 0
    /\ current_context' = <<>>
    /\ pending_bash_commands' = <<>>
    /\ bash_commands' = <<>>
    /\ pc' = "bash"
    /\ UNCHANGED <<renaming, flat, multi, tools, disk, pass>>

\* lines 620-623
BashTextBlock ==
    /\ AssistantBlocks /\ HasBlock /\ item.type = "text"
    /\ current_context' = AddContext(current_context, item.text)
    /\ blockno' = blockno + 1
    /\ UNCHANGED <<renaming, flat, multi, tools, disk, pass, pc, jsonl_path, entries, recno, pending_bash_commands,
                   bash_commands>>

\* lines 624-638
BashToolUse ==
    /\ AssistantBlocks /\ HasBlock /\ item.type = "tool_use"
    /\ IF IsBashCall(item)
       THEN /\ pending_bash_commands' =
                  Append(pending_bash_commands,
                         PendingCommand(item, current_context, entries[recno + 1].timestamp))
            /\ current_context' = <<>>
       ELSE UNCHANGED <<pending_bash_commands, current_context>>
    /\ blockno' = blockno + 1
    /\ UNCHANGED <<renaming, flat, multi, tools, disk, pass, pc, jsonl_path, entries, recno, bash_commands>>

\* lines 639-640: an assistant message whose content is a string
BashStringContent ==
    /\ InLoop
    /\ bash_entry.type = "assistant" /\ bash_entry.has_message
    /\ bash_entry.role = "assistant" /\ bash_entry.content.kind = "str"
    /\ current_context' = AddContext(current_context, bash_entry.content.text)
    /\ recno' = recno + 1
    /\ UNCHANGED <<renaming, flat, multi, tools, disk, pass, pc, jsonl_path, entries, blockno, pending_bash_commands,
                   bash_commands>>

\* lines 648-695: a tool_result block of a user message
BashToolResult ==
    /\ UserBlocks /\ HasBlock /\ item.type = "tool_result"
    /\ LET m == MatchPending(pending_bash_commands, item.tool_use_id)
       IN  /\ pending_bash_commands' = m.pending
           /\ bash_commands' = IF m.matched /\ ~HasError(item.content)
                               THEN Append(bash_commands, Successful(m.cmd))
                               ELSE bash_commands
    /\ blockno' = blockno + 1
    /\ UNCHANGED <<renaming, flat, multi, tools, disk, pass, pc, jsonl_path, entries, recno, current_context>>

\* a block the loops of lines 618 and 648 pass over
BashSkipBlock ==
    /\ \/ AssistantBlocks /\ HasBlock /\ item.type \notin {"text", "tool_use"}
       \/ UserBlocks /\ HasBlock /\ item.type # "tool_result"
    /\ blockno' = blockno + 1
    /\ UNCHANGED <<renaming, flat, multi, tools, disk, pass, pc, jsonl_path, entries, recno, current_context,
                   pending_bash_commands, bash_commands>>

\* an end of entry that keeps the context across entries of type "user"
BashEndEntryKeepsContext ==
    /\ InLoop /\ bash_entry.object
    /\ \/ (AssistantBlocks \/ UserBlocks) /\ ~HasBlock
       \/ ~AssistantBlocks /\ ~UserBlocks
          /\ ~(/\ bash_entry.type = "assistant" /\ bash_entry.has_message
               /\ bash_entry.role = "assistant" /\ bash_entry.content.kind = "str")
    /\ recno' = recno + 1
    /\ blockno' = 0
    /\ UNCHANGED <<renaming, flat, multi, tools, disk, pass, pc, jsonl_path, entries, current_context,
                   pending_bash_commands, bash_commands>>

\* the end of an entry: line 697 empties the context after an entry of type
\* "user", whatever it holds
BashEndEntry ==
    /\ InLoop /\ bash_entry.object
    /\ \/ (AssistantBlocks \/ UserBlocks) /\ ~HasBlock
       \/ ~AssistantBlocks /\ ~UserBlocks
          /\ ~(/\ bash_entry.type = "assistant" /\ bash_entry.has_message
               /\ bash_entry.role = "assistant" /\ bash_entry.content.kind = "str")
    /\ current_context' = IF bash_entry.type = "user" THEN <<>> ELSE current_context
    /\ recno' = recno + 1
    /\ blockno' = 0
    /\ UNCHANGED <<renaming, flat, multi, tools, disk, pass, pc, jsonl_path, entries, pending_bash_commands, bash_commands>>

\* line 702
BashReturn ==
    /\ pc = "bash" /\ recno = Len(entries)
    /\ pc' = "bash_returned"
    /\ UNCHANGED <<renaming, flat, multi, tools, disk, pass, jsonl_path, bash>>

\* a failed Bash command, a failed result of the invocation toolu_1, and an
\* assistant message that is a string
BashFailed ==
    UserEntry(ListContent(<<ToolResult("toolu_2",
                                       <<"bash:", " ", "ls:", " ", "command", " ", "not",
                                         " ", "found">>)>>))

ReadFailed ==
    UserEntry(ListContent(<<ToolResult("toolu_1",
                                       <<"cat:", " ", "x:", " ", "No", " ", "such", " ",
                                         "file", " ", "or", " ", "directory">>)>>))

AssistantSays == AssistantEntry(StrContent(<<" ", "All", " ", "done.">>), "claude-opus")

BashLines ==
    {TaskCall, BashCall, TaskResult, ToolResultOnly, BashFailed, ReadFailed, AssistantSays,
     Malformed}

MaxBashLines == 3

InitBash ==
    /\ tree = <<>>
    /\ content_arg = StrContent(<<>>)
    /\ files \in {("s1" :> log) : log \in UNION {[1..k -> BashLines] : k \in 0..MaxBashLines}}
    /\ fails_at = ("s1" :> -1)
    /\ subagent_dirs = ("s1" :> NoSideFiles)
    /\ returned = [k \in {"s1"} \X Flags |-> NotReturned]
    /\ midnight = 0
    /\ Idle

NextBash ==
    \/ BashStart
    \/ BashTextBlock
    \/ BashToolUse
    \/ BashStringContent
    \/ BashToolResult
    \/ BashSkipBlock
    \/ BashEndEntry
    \/ BashReturn

SpecBash == InitBash /\ [][NextBash]_vars

(***************************************************************************)
(* extract_tool_operations(jsonl_path, tool_filter, detailed), an entry of *)
(* the log a step.  The outputs of the tools are written a character a     *)
(* token.                                                                  *)
(***************************************************************************)
ReadCall ==
    AssistantEntry(
        ListContent(<<TextBlock(<<" ", "Let", " ", "me", " ", "read.">>),
                      ToolUse("Read", "toolu_r", <<StrField("file_path", <<"a.py">>)>>)>>),
        "claude-opus")

\* a search and a git command, with a text between them
SearchCall ==
    AssistantEntry(
        ListContent(<<ToolUse("Grep", "toolu_g", <<StrField("pattern", <<"def">>)>>),
                      TextBlock(<<"Then", " ", "git.">>),
                      ToolUse("Bash", "toolu_b",
                              <<StrField("command", <<" ", "git", " ", "status">>)>>)>>),
        "claude-opus")

FetchCall ==
    AssistantEntry(
        ListContent(<<ToolUse("WebFetch", "toolu_w", <<StrField("url", <<"http://x">>)>>)>>),
        "claude-haiku")

ReadResult ==
    UserEntry(ListContent(<<ToolResult("toolu_r", <<"a", "\n", "b">>)>>))

\* the results of the git command and of the search, and one of no invocation
GitResult ==
    UserEntry(ListContent(<<ToolResult("toolu_b", <<"o", "k">>),
                            ToolResult("toolu_x", <<"?">>),
                            ToolResult("toolu_g", <<"a", "\n", " ", "\n", "b">>)>>))

ToolLines ==
    {ReadCall, SearchCall, FetchCall, BashCall, ReadResult, GitResult, UserSays, TurnDuration,
     Malformed}

MaxToolLines == 3

ToolFilters == {<<>>, <<"file">>, <<"Grep", "Git">>, <<"web", "git">>, <<"Bash">>}

ToolsInLoop == pc = "tools" /\ recno < Len(entries)

\* lines 777-779: an assistant entry whose message is read
ToolsAssistantMessage(e) ==
    e.type = "assistant" /\ e.has_message /\ e.role = "assistant"

\* extract_tool_operations(jsonl_path, tool_filter, detailed) is called:
\* lines 734-771
ToolsStart ==
    /\ pc = "idle"
    /\ \E path \in DOMAIN files :
        /\ jsonl_path' = path
        /\ entries' = LoadEntries(files[path])
    /\ tool_filter' \in ToolFilters
    /\ detailed' \in BOOLEAN
    /\ recno' = 0
    /\ current_context' = <<>>
    /\ pending_tool_ops' = <<>>
    /\ tool_ops' = EmptyToolOps
    /\ pc' = "tools"
    /\ UNCHANGED <<renaming, flat, multi, disk, include_thinking, lineno, conversation, pending_questions,
                   pending_task_tools, stats, subagent_files, returned, repeat, separated,
                   blockno, pending_bash_commands, bash_commands>>

\* lines 777-819: an assistant entry
ToolsAssistant ==
    /\ ToolsInLoop
    /\ LET e == entries[recno + 1]
       IN  /\ ToolsAssistantMessage(e.entry)
           /\ IF e.entry.content.kind = "list"
              THEN LET st == ToolsAssistantBlocks(
                                [current_context |-> current_context,
                                 pending_tool_ops |-> pending_tool_ops],
                                e.entry.content.items, e.timestamp, tool_filter)
                   IN  /\ current_context' = st.current_context
                       /\ pending_tool_ops' = st.pending_tool_ops
              ELSE /\ current_context' =
                        IF e.entry.content.kind = "str"
                        THEN AddContext(current_context, e.entry.content.text)
                        ELSE current_context
                   /\ UNCHANGED pending_tool_ops
    /\ recno' = recno + 1
    /\ UNCHANGED <<renaming, flat, multi, disk, pass, pc, jsonl_path, entries, blockno, pending_bash_commands,
                   bash_commands, tool_filter, tool_ops>>

\* lines 822-852: a user entry
ToolsUser ==
    /\ ToolsInLoop
    /\ LET e == entries[recno + 1]
       IN  /\ ~ToolsAssistantMessage(e.entry)
           /\ e.entry.type = "user"
           /\ IF e.entry.content.kind = "list"
              THEN LET st == ToolsUserBlocks(
                                [pending_tool_ops |-> pending_tool_ops, tool_ops |-> tool_ops],
                                e.entry.content.items, detailed)
                   IN  /\ pending_tool_ops' = st.pending_tool_ops
                       /\ tool_ops' = st.tool_ops
              ELSE UNCHANGED <<pending_tool_ops, tool_ops>>
    /\ current_context' = <<>>
    /\ recno' = recno + 1
    /\ UNCHANGED <<renaming, flat, multi, disk, pass, pc, jsonl_path, entries, blockno, pending_bash_commands,
                   bash_commands, tool_filter>>

\* an entry of another type, which the loop of line 773 passes over
ToolsOther ==
    /\ ToolsInLoop
    /\ LET e == entries[recno + 1]
       IN  e.entry.object /\ ~ToolsAssistantMessage(e.entry) /\ e.entry.type # "user"
    /\ recno' = recno + 1
    /\ UNCHANGED <<renaming, flat, multi, disk, pass, pc, jsonl_path, entries, blockno, current_context,
                   pending_bash_commands, bash_commands, tools>>

\* a return that leaves out the operations that wait for a result
ToolsReturnResolvedOnly ==
    /\ pc = "tools" /\ recno = Len(entries)
    /\ pc' = "tools_returned"
    /\ UNCHANGED <<renaming, flat, multi, disk, pass, jsonl_path, bash, tools>>

\* lines 854-871: the operations without a result, and the return
ToolsReturn ==
    /\ pc = "tools" /\ recno = Len(entries)
    /\ tool_ops' = FlushPending(tool_ops, pending_tool_ops)
    /\ pc' = "tools_returned"
    /\ UNCHANGED <<renaming, flat, multi, disk, pass, jsonl_path, bash, tool_filter, pending_tool_ops>>

InitTools ==
    /\ tree = <<>>
    /\ content_arg = StrContent(<<>>)
    /\ files \in {("s1" :> log) : log \in UNION {[1..k -> ToolLines] : k \in 0..MaxToolLines}}
    /\ fails_at = ("s1" :> -1)
    /\ subagent_dirs = ("s1" :> NoSideFiles)
    /\ returned = [k \in {"s1"} \X Flags |-> NotReturned]
    /\ midnight = 0
    /\ Idle

NextTools ==
    \/ ToolsStart
    \/ ToolsAssistant
    \/ ToolsUser
    \/ ToolsOther
    \/ ToolsReturn

SpecTools == InitTools /\ [][NextTools]_vars

(***************************************************************************)
(* extract_multiple, extract_bash_commands_multiple and                    *)
(* extract_tool_operations_multiple, run twice with the same arguments     *)
(* over one output directory.  The timestamp of a line is its index; the   *)
(* lines up to `midnight` are of one day and the later ones of the next.   *)
(* A file name is a record of its shape and of the parts the shape holds.  *)
(* The runs use the markdown format and by_project=False.                  *)
(***************************************************************************)
Today == "today"

\* dt.strftime("%Y-%m-%d") and dt.strftime("%H_%M") of the timestamp of a line
DateOf(timestamp) == IF timestamp <= midnight THEN "day1" ELSE "day2"

TimeOf(timestamp) == timestamp

\* _get_date_from_session(session_path): the date of the first line that
\* decodes (every entry has a timestamp), or else the current date
GetDateFromSession(lines) ==
    LET ok == {i \in 1..Len(lines) : lines[i].valid}
    IN  IF ok = {} THEN Today ELSE DateOf(Min(ok))

\* _get_output_dir(date_str, by_day): the root of the output directory, or
\* its subdirectory of the day
GetOutputDir(date_str, day) == IF day THEN date_str ELSE ""

OutputFile(dir, shape, date_str, time_str, session_id) ==
    [dir |-> dir, shape |-> shape, date |-> date_str, time |-> time_str, sid |-> session_id]

\* lines 1353-1372, 1987-2005 and 2069-2099: the file a save writes, named
\* after the timestamp of the first entry, command or operation
SavedFile(shape, timestamp, session_id, day) ==
    OutputFile(GetOutputDir(DateOf(timestamp), day), shape, DateOf(timestamp),
               TimeOf(timestamp), session_id)

\* lines 2479-2483: some file of the directory matches
\* {date_str}-*-{session_id[:8]}.md
ConversationFileExists(files_there, date_str, session_id, day) ==
    \E f \in files_there :
        /\ f.dir = GetOutputDir(date_str, day)
        /\ f.shape = "date-time-sid.md"
        /\ f.date = date_str /\ f.sid = session_id

\* lines 2587-2594 and 2661-2668: the file {prefix}-{date_str}-{stem[:8]}.md
\* is in the directory
NamedFileExists(files_there, shape, date_str, session_id, day) ==
    OutputFile(GetOutputDir(date_str, day), shape, date_str, 0, session_id) \in files_there

\* lines 2069-2080: the timestamp of the first operation of the first
\* bucket that has one
FirstOperationTimestamp(ops) ==
    LET lists == <<ops.file.Read, ops.file.Write, ops.file.Edit, ops.search.Grep,
                   ops.search.Glob, ops.web.WebFetch, ops.web.WebSearch, ops.git>>
        full  == {k \in 1..Len(lists) : lists[k] # <<>>}
    IN  lists[Min(full)][1].timestamp

\* lines 2682-2688: op_count
OperationCount(ops) ==
    Len(ops.file.Read) + Len(ops.file.Write) + Len(ops.file.Edit) + Len(ops.search.Grep)
    + Len(ops.search.Glob) + Len(ops.web.WebFetch) + Len(ops.web.WebSearch) + Len(ops.git)

sessions == <<"s1">>

\* the indices asked for: the session, and a number that names none
indices == <<0, 1>>

Methods == {"conversation", "bash", "tools"}

MultiLines == {UserSays, TurnDuration, SearchCall, GitResult, Malformed}

MaxMultiLines == 2

\* the index the loop of lines 2510, 2578 and 2652 is at
InMulti == pc = "multi" /\ position < Len(indices)

idx == indices[position + 1]

ValidIndex == 0 <= idx /\ idx < Len(sessions)

session_path == sessions[idx + 1]

\* lines 2515-2525, 2583-2594 and 2657-2668: the file the check looks for is
\* there
OutputExists ==
    LET date_str == GetDateFromSession(files[session_path])
    IN  IF method = "conversation"
        THEN ConversationFileExists(outputs, date_str, session_path, by_day)
        ELSE IF method = "bash"
        THEN NamedFileExists(outputs, "bash-commands-date-sid.md", date_str, session_path, by_day)
        ELSE NamedFileExists(outputs, "tool-operations-date-sid.md", date_str, session_path,
                             by_day)

\* one of the three methods is called; the second call has the arguments of
\* the first
MultiStart ==
    /\ pc = "idle" /\ run < 2
    /\ IF run = 0
       THEN /\ method' \in Methods
            /\ overwrite' \in BOOLEAN
            /\ by_day' \in BOOLEAN
            /\ detailed' \in IF method' = "bash" THEN {FALSE} ELSE BOOLEAN
       ELSE UNCHANGED <<method, overwrite, by_day, detailed>>
    /\ run' = run + 1
    /\ position' = 0
    /\ success' = 0 /\ skipped' = 0
    /\ pc' = "multi"
    /\ UNCHANGED <<renaming, flat, disk, midnight, outputs, written, tools, bash, jsonl_path, include_thinking,
                   lineno, conversation, pending_questions, pending_task_tools, stats,
                   subagent_files, returned, repeat, separated>>

\* lines 2525-2532, 2594-2601 and 2668-2675: the session is skipped
MultiSkip ==
    /\ InMulti /\ ValidIndex
    /\ ~overwrite /\ OutputExists
    /\ skipped' = skipped + 1
    /\ position' = position + 1
    /\ UNCHANGED <<renaming, flat, disk, midnight, outputs, method, overwrite, by_day, run, success, written,
                   tools, bash, pass, pc, jsonl_path>>

\* lines 2555, 2622 and 2708: an index that names no session
MultiInvalid ==
    /\ InMulti /\ ~ValidIndex
    /\ position' = position + 1
    /\ UNCHANGED <<renaming, flat, disk, midnight, outputs, method, overwrite, by_day, run, success, skipped,
                   written, tools, bash, pass, pc, jsonl_path>>

\* lines 2534-2537: extract_conversation is called for the session
MultiCallConversation ==
    /\ InMulti /\ ValidIndex /\ method = "conversation"
    /\ overwrite \/ ~OutputExists
    /\ StartPass(session_path, detailed, include_thinking)

\* line 2603: extract_bash_commands is called for the session
MultiCallBash ==
    /\ InMulti /\ ValidIndex /\ method = "bash"
    /\ overwrite \/ ~OutputExists
    /\ jsonl_path' = session_path
    /\ entries' = LoadEntries(files[session_path])
    /\ recno' = 0 /\ blockno' = 0
    /\ current_context' = <<>>
    /\ pending_bash_commands' = <<>>
    /\ bash_commands' = <<>>
    /\ pc' = "bash"
    /\ UNCHANGED <<renaming, flat, multi, tools, disk, pass>>

\* lines 2677-2679: extract_tool_operations is called for the session
MultiCallTools ==
    /\ InMulti /\ ValidIndex /\ method = "tools"
    /\ overwrite \/ ~OutputExists
    /\ jsonl_path' = session_path
    /\ entries' = LoadEntries(files[session_path])
    /\ recno' = 0
    /\ current_context' = <<>>
    /\ pending_tool_ops' = <<>>
    /\ tool_ops' = EmptyToolOps
    /\ pc' = "tools"
    /\ UNCHANGED <<renaming, flat, multi, disk, pass, tool_filter, blockno, pending_bash_commands,
                   bash_commands>>

\* the call has returned something to save
HasResult ==
    \/ pc = "returned" /\ conversation # <<>>
    \/ pc = "bash_returned" /\ bash_commands # <<>>
    \/ pc = "tools_returned" /\ OperationCount(tool_ops) > 0

\* lines 2538-2553, 2604-2620 and 2681-2706: the result is saved, or there
\* is none
MultiSave ==
    /\ pc \in {"returned", "bash_returned", "tools_returned"}
    /\ IF HasResult
       THEN /\ outputs' = outputs \cup
                  {IF pc = "returned"
                   THEN SavedFile("date-time-sid.md", conversation[1].timestamp, jsonl_path,
                                  by_day)
                   ELSE IF pc = "bash_returned"
                   THEN SavedFile("date-time-sid-bash.md", bash_commands[1].timestamp,
                                  jsonl_path, by_day)
                   ELSE SavedFile("date-time-sid-tools.md",
                                  FirstOperationTimestamp(tool_ops), jsonl_path, by_day)}
            /\ success' = success + 1
            /\ written' = written \cup {<<run, idx>>}
       ELSE UNCHANGED <<outputs, success, written>>
    /\ position' = position + 1
    /\ pc' = "multi"
    /\ UNCHANGED <<renaming, flat, disk, midnight, method, overwrite, by_day, run, skipped, tools, bash, pass,
                   jsonl_path>>

\* lines 2557, 2624 and 2710: the method returns
MultiReturn ==
    /\ pc = "multi" /\ position = Len(indices)
    /\ pc' = IF run < 2 THEN "idle" ELSE "done"
    /\ UNCHANGED <<renaming, flat, multi, tools, disk, pass, bash, jsonl_path>>

InitMulti ==
    /\ tree = <<>>
    /\ content_arg = StrContent(<<>>)
    /\ files \in {("s1" :> log) : log \in UNION {[1..k -> MultiLines] : k \in 0..MaxMultiLines}}
    /\ fails_at = ("s1" :> -1)
    /\ subagent_dirs = ("s1" :> NoSideFiles)
    /\ returned = [k \in {"s1"} \X Flags |-> NotReturned]
    /\ midnight \in 1..MaxMultiLines
    /\ Idle

NextMulti ==
    \/ MultiStart
    \/ MultiSkip
    \/ MultiInvalid
    \/ MultiCallConversation
    \/ HandleUser
    \/ HandleAssistant
    \/ HandleSystem
    \/ SkipLine
    \/ Finish
    \/ MultiCallBash
    \/ BashTextBlock
    \/ BashToolUse
    \/ BashToolResult
    \/ BashEndEntry
    \/ BashReturn
    \/ MultiCallTools
    \/ ToolsAssistant
    \/ ToolsUser
    \/ ToolsOther
    \/ ToolsReturn
    \/ MultiSave
    \/ MultiReturn

SpecMulti == InitMulti /\ [][NextMulti]_vars

(***************************************************************************)
(* extract_conversation over logs with records whose handling raises and   *)
(* over files that cannot be read to their end.                            *)
(***************************************************************************)
\* the result of toolu_1 in an entry whose toolUseResult is a string
BadResult == [TaskResult EXCEPT !.toolUseResult.kind = "str"]

FaultLines == {UserSays, TaskCall, BashCall, BadResult, NotAnObject, Malformed}

MaxFaultLines == 3

InitFaults ==
    /\ tree = <<>>
    /\ content_arg = StrContent(<<>>)
    /\ \E log \in UNION {[1..k -> FaultLines] : k \in 0..MaxFaultLines} :
          /\ files = ("s1" :> log)
          /\ fails_at \in {("s1" :> k) : k \in -1..Len(log)}
    /\ subagent_dirs = ("s1" :> (<<"agent-", "a1">> :> SideFull))
    /\ returned = [k \in {"s1"} \X Flags |-> NotReturned]
    /\ midnight = 0
    /\ Idle

NextFaults ==
    \/ Begin
    \/ HandleUser
    \/ HandleAssistant
    \/ SkipLine
    \/ ReadFails
    \/ Finish

SpecFaults == InitFaults /\ [][NextFaults]_vars

(***************************************************************************)
(* extract_conversation over logs with questions, answers, delegations    *)
(* and plans.                                                              *)
(***************************************************************************)
Questions1 == <<<<"Which", " ", "database?">>>>

Questions2 == <<<<"Which", " ", "port?">>>>

AskQuestion(id, questions) ==
    ToolUse("AskUserQuestion", id, <<ListField("questions", questions)>>)

\* an assistant line with a text and a question
AskCall ==
    AssistantEntry(
        ListContent(<<TextBlock(<<"I", " ", "need", " ", "to", " ", "ask.">>),
                      AskQuestion("toolu_q1", Questions1)>>),
        "claude-opus")

\* an assistant line that holds two questions and no text
AskTwice ==
    AssistantEntry(
        ListContent(<<AskQuestion("toolu_q1", Questions1),
                      AskQuestion("toolu_q2", Questions2)>>),
        "claude-opus")

\* a user line with the result of an invocation, a text, and the answers
\* in toolUseResult
Answer(blocks, answers) ==
    [UserEntry(ListContent(blocks)) EXCEPT
        !.toolUseResult = [kind |-> "dict", answers |-> answers]]

Answers1 == << <<"Which database?", "postgres">> >>

Answers2 == << <<"Which port?", "5432">> >>

Answer1 ==
    Answer(<<ToolResult("toolu_q1", <<"answered">>), TextBlock(<<"ok">>)>>, Answers1)

Answer2 ==
    Answer(<<ToolResult("toolu_q2", <<"answered">>), TextBlock(<<"ok">>)>>, Answers2)

\* the result of toolu_q1 after the result of another invocation
AnswerAfterOther ==
    Answer(<<ToolResult("toolu_2", <<"a.py">>), ToolResult("toolu_q1", <<"answered">>),
             TextBlock(<<"ok">>)>>, Answers1)

\* an assistant line with a text, a delegation and the end of planning
PlanAndTask ==
    [AssistantEntry(
        ListContent(<<TextBlock(<<"Plan", " ", "ready.">>),
                      ToolUse("Task", "toolu_1",
                              <<StrField("description", <<"Explore", " ", "codebase">>),
                                StrField("subagent_type", <<"Explore">>)>>),
                      ToolUse("ExitPlanMode", "toolu_3",
                              <<StrField("plan", <<"Step", " ", "one">>)>>)>>),
        "claude-opus") EXCEPT !.slug = "calm-river"]

QALines ==
    {UserSays, AskCall, AskTwice, Answer1, Answer2, AnswerAfterOther, TaskCall, TaskResult,
     ExitPlanCall, PlanAndTask}

MaxQALines == 3

InitQA ==
    /\ tree = <<>>
    /\ content_arg = StrContent(<<>>)
    /\ files \in {("s1" :> log) : log \in UNION {[1..k -> QALines] : k \in 0..MaxQALines}}
    /\ fails_at = ("s1" :> -1)
    /\ subagent_dirs = ("s1" :> (<<"agent-", "a1">> :> SideFull))
    /\ returned = [k \in {"s1"} \X Flags |-> NotReturned]
    /\ midnight = 0
    /\ Idle

NextQA ==
    \/ Begin
    \/ HandleUser
    \/ HandleAssistant
    \/ Finish

SpecQA == InitQA /\ [][NextQA]_vars

(***************************************************************************)
(* extract_conversation over logs with records of every type.              *)
(***************************************************************************)
LocalCommand == SystemEntry("local_command", <<"/help">>, 0)

KindLines == {UserSays, BashCall, TurnDuration, LocalCommand, HookProgress, SnapshotEntry}

MaxKindLines == 3

InitKinds ==
    /\ tree = <<>>
    /\ content_arg = StrContent(<<>>)
    /\ files \in {("s1" :> log) : log \in UNION {[1..k -> KindLines] : k \in 0..MaxKindLines}}
    /\ fails_at = ("s1" :> -1)
    /\ subagent_dirs = ("s1" :> NoSideFiles)
    /\ returned = [k \in {"s1"} \X Flags |-> NotReturned]
    /\ midnight = 0
    /\ Idle

SpecKinds == InitKinds /\ [][Next]_vars

(***************************************************************************)
(* Properties of extract_conversation.  An entry carries the timestamp of  *)
(* the line that gave rise to it, and the i-th line of a log carries the   *)
(* timestamp i, so the entries of a line are those with its index.         *)
(***************************************************************************)
Range(seq) == {seq[i] : i \in DOMAIN seq}

IsPrefix(a, b) == Len(a) <= Len(b) /\ SubSeq(b, 1, Len(a)) = a

\* the log of the running call, and its side files
Log == files[jsonl_path]

Dir == subagent_dirs[jsonl_path]

\* the call has read every line and has not yet added the stats entry
AtEnd == pc = "reading" /\ lineno = Len(Log)

NonStats(conv) == SelectSeq(conv, LAMBDA m : m.role # "stats")

\* the number of entries with a role of `roles` that line i gave rise to
Count(conv, roles, i) ==
    Len(SelectSeq(conv, LAMBDA m : m.role \in roles /\ m.timestamp = i))

MainRoles == {"user", "assistant", "plan", "qa", "system"}

IsUserRecord(e) ==
    e.valid /\ e.object /\ e.type = "user" /\ e.has_message /\ e.role = "user"

IsAssistantRecord(e) ==
    e.valid /\ e.object /\ e.type = "assistant" /\ e.has_message /\ e.role = "assistant"

\* the blocks of a type in the content of a record
BlocksOf(e, type) ==
    IF e.content.kind = "list"
    THEN SelectSeq(e.content.items, LAMBDA b : b.type = type) ELSE <<>>

\* the reasoning blocks of a record whose text is not empty
ReasoningOf(e) == SelectSeq(BlocksOf(e, "thinking"), LAMBDA b : b.thinking # <<>>)

\* the record carries an ExitPlanMode call with a plan that is not empty
CarriesPlan(e) ==
    \E b \in Range(BlocksOf(e, "tool_use")) :
        b.name = "ExitPlanMode" /\ InputGet(b.input, "plan") # <<>>

\* C1 as stated: the entries other than the stats entry are at most as many
\* as the lines of the log
C1_AtMostOneEntryPerRecord ==
    pc = "returned" => Len(NonStats(conversation)) <= Len(Log)

\* C1 (amended): a line gives rise to at most one entry of role user,
\* assistant, plan, qa or system; to at most one thinking entry for each of
\* its reasoning blocks, and to none unless include_thinking is set; to at
\* most one subagent entry for each of its tool_result blocks
C1_BoundedEntriesPerRecord ==
    pc # "idle" =>
        /\ \A m \in Range(conversation) : m.role = "stats" \/ m.timestamp \in 1..lineno
        /\ \A i \in 1..lineno :
            /\ Count(conversation, MainRoles, i) <= 1
            /\ Count(conversation, {"thinking"}, i)
                  <= IF include_thinking THEN Len(BlocksOf(Log[i], "thinking")) ELSE 0
            /\ Count(conversation, {"subagent"}, i) <= Len(BlocksOf(Log[i], "tool_result"))

\* a call returned more entries than the log has lines, with a line that
\* gave rise to an entry for its text and to others
C1_Witness ==
    /\ pc = "returned"
    /\ Len(NonStats(conversation)) > Len(Log)
    /\ \E i \in 1..lineno :
        /\ Count(conversation, MainRoles, i) = 1
        /\ Count(conversation, {"thinking", "subagent"}, i) >= 1

\* the entries are in the order of their lines, and a stats entry is last
Ordered(conv) ==
    \A i, j \in 1..Len(conv) :
        i < j => /\ conv[i].role # "stats"
                 /\ conv[j].role # "stats" => conv[i].timestamp <= conv[j].timestamp

\* C2: the output is only ever appended to, so the entries are in the order
\* of the lines that gave rise to them; the stats entry, which no line gave
\* rise to, is the last one
C2_RecordOrderPreserved ==
    /\ [](pc # "idle" => Ordered(conversation))
    /\ [][pc = "reading" => IsPrefix(conversation, conversation')]_vars

\* a call in detailed mode returned entries of two lines and the stats entry
C2_Witness ==
    /\ pc = "returned"
    /\ Len(conversation) >= 3
    /\ conversation[1].timestamp < conversation[2].timestamp
    /\ conversation[Len(conversation)].role = "stats"

\* the summary of a tool invocation in a flattened text: the name of the
\* tool and its serialized input
Summary(b) == Join(<<"\n">>, ToolUseParts(b))

\* line i is an assistant record that issues the invocation b, and line i+1
\* is a user record with the tool_result block of b
InvokedThenResult(log, i, b) ==
    /\ i + 1 <= Len(log)
    /\ IsAssistantRecord(log[i])
    /\ b \in Range(BlocksOf(log[i], "tool_use"))
    /\ IsUserRecord(log[i + 1])
    /\ \E r \in Range(BlocksOf(log[i + 1], "tool_result")) : r.tool_use_id = b.id

\* no entry for a tool invocation or a tool result, and no text of an entry
\* of line i holds the content of a tool_result block of that line
NoToolEntries(conv, log, i) ==
    /\ \A m \in Range(conv) : m.role \notin {"tool_use", "tool_result"}
    /\ \A m \in Range(conv), r \in Range(BlocksOf(log[i], "tool_result")) :
          m.timestamp = i /\ r.content # <<>> => ~Contains(m.content, r.content)

Registers(e, id) ==
    /\ IsAssistantRecord(e)
    /\ \E b \in Range(BlocksOf(e, "tool_use")) : b.name = "Task" /\ b.id = id

\* the k-th block of line j is a tool_result block of id in a user record
ResultAt(log, j, k, id) ==
    /\ IsUserRecord(log[j]) /\ log[j].content.kind = "list"
    /\ k \in 1..Len(log[j].content.items)
    /\ log[j].content.items[k].type = "tool_result"
    /\ log[j].content.items[k].tool_use_id = id

\* a Task invocation of id waits for its result when the k-th block of line
\* j is read: it was registered and no tool_result block of id came since
PendingAt(log, j, k, id) ==
    \E i \in 1..(j - 1) :
        /\ Registers(log[i], id)
        /\ \A j2 \in (i + 1)..j : \A k2 \in 1..Len(log[j2].content.items) :
              (j2 < j \/ k2 < k) => ~ResultAt(log, j2, k2, id)

\* the text of the block names a delegate whose side file is in dir
NamesSideFile(b, dir) ==
    /\ AgentIdMatches(b.content) # {}
    /\ <<"agent-", AgentIdOf(b.content)>> \in DOMAIN dir

\* the k-th block of line j is the first result of a pending Task invocation
\* and names a delegate with a side file
Resolves(log, dir, j, k) ==
    /\ \E id \in {"toolu_1", "toolu_2"} : ResultAt(log, j, k, id) /\ PendingAt(log, j, k, id)
    /\ NamesSideFile(log[j].content.items[k], dir)

\* a line of the side file gives a nested message
SideFileSpeaks(lines, d, t) ==
    \E e \in Range(lines) :
        \/ IsUserRecord(e) /\ Truthy(ExtractTextContent(e.content, FALSE))
        \/ /\ IsAssistantRecord(e)
           /\ \/ Truthy(ExtractTextContent(e.content, d))
              \/ t /\ ReasoningOf(e) # <<>>

\* the subagent entries of the results of the Task invocation of line i
SubagentEntriesFor(conv, log, i, id) ==
    SelectSeq(conv, LAMBDA m :
        /\ m.role = "subagent" /\ m.timestamp > i
        /\ \E k \in 1..Len(log[m.timestamp].content.items) : ResultAt(log, m.timestamp, k, id)
        /\ \A i2 \in (i + 1)..(m.timestamp - 1) : ~Registers(log[i2], id))

\* C4 as stated: a Task invocation with a later tool_result block of its
\* identifier that names a delegate with a side file gives exactly one
\* subagent entry, which holds at least one nested message
C4_OneSubagentEntryPerTask ==
    pc = "returned" =>
        \A i \in 1..Len(Log), j \in 1..Len(Log) :
            \A b \in Range(BlocksOf(Log[j], "tool_result")) :
                (/\ i < j /\ Registers(Log[i], b.tool_use_id) /\ IsUserRecord(Log[j])
                 /\ \A i2 \in (i + 1)..(j - 1) : ~Registers(Log[i2], b.tool_use_id)
                 /\ NamesSideFile(b, Dir))
                => LET es == SubagentEntriesFor(conversation, Log, i, b.tool_use_id)
                   IN  Len(es) = 1 /\ es[1].messages # <<>>

\* C4 (amended): a line gives one subagent entry for each of its
\* tool_result blocks that is the first result of a pending Task invocation
\* and names a delegate with a side file, and no other; the entry holds a
\* nested message exactly when a user or assistant line of the side file
\* has a text that is not blank (or, with include_thinking, a reasoning
\* block that is not empty)
C4_SubagentEntryPerResolution ==
    pc # "idle" =>
        \A j \in 1..lineno :
            /\ Count(conversation, {"subagent"}, j)
                  = Cardinality({k \in 1..Len(Log[j].content.items) : Resolves(Log, Dir, j, k)})
            /\ \A m \in Range(conversation) :
                  m.role = "subagent" /\ m.timestamp = j =>
                      /\ <<"agent-", m.agent_id>> \in DOMAIN Dir
                      /\ (m.messages # <<>>) <=>
                            SideFileSpeaks(Dir[<<"agent-", m.agent_id>>], detailed,
                                           include_thinking)

\* a call returned a subagent entry with nested messages for the result of
\* a pending Task invocation
C4_Witness ==
    /\ pc = "returned"
    /\ \E j \in 1..Len(Log) :
        /\ \E k \in 1..Len(Log[j].content.items) : Resolves(Log, Dir, j, k)
        /\ \E m \in Range(conversation) :
              m.role = "subagent" /\ m.timestamp = j /\ m.messages # <<>>

\* the k-th block of line j is the first result of a pending Task invocation
\* and names no delegate, or one without a side file
Unresolved(log, dir, j, k) ==
    /\ \E id \in {"toolu_1", "toolu_2"} : ResultAt(log, j, k, id) /\ PendingAt(log, j, k, id)
    /\ ~NamesSideFile(log[j].content.items[k], dir)

NotSubagent(conv) == SelectSeq(conv, LAMBDA m : m.role # "subagent")

\* C5: every subagent entry is of a delegate with a side file; a line whose
\* results name no such delegate gives no subagent entry; and the other
\* entries are the ones the call gives when the session has no side files
\* at all
C5_UnresolvedDelegationDropped ==
    AtEnd =>
        /\ \A m \in Range(conversation) :
              m.role = "subagent" => <<"agent-", m.agent_id>> \in DOMAIN Dir
        /\ \A j \in 1..lineno :
              (\A b \in Range(BlocksOf(Log[j], "tool_result")) : ~NamesSideFile(b, Dir))
              => Count(conversation, {"subagent"}, j) = 0
        /\ LET alone == RunPass(Log, lineno, NoSideFiles, detailed, include_thinking)
           IN  /\ NotSubagent(conversation) = alone.conversation
               /\ pending_task_tools = alone.pending_task_tools
               /\ pending_questions = alone.pending_questions

\* a call read the result of a pending Task invocation that resolves to no
\* side file, gave no subagent entry for it and gave the entry of the text
\* of the same record
C5_Witness ==
    /\ AtEnd
    /\ \E j \in 1..lineno :
        /\ \E k \in 1..Len(Log[j].content.items) :
              Unresolved(Log, Dir, j, k) /\ AgentIdMatches(Log[j].content.items[k].content) # {}
        /\ Count(conversation, {"subagent"}, j) = 0
        /\ Count(conversation, {"user"}, j) = 1

\* C6: with include_thinking=False no entry has the role thinking, at top
\* level or among the nested messages of a subagent entry
C6_NoThinkingUnlessAsked ==
    (pc # "idle" /\ ~include_thinking) =>
        \A m \in Range(conversation) :
            /\ m.role # "thinking"
            /\ \A n \in Range(m.messages) : n.role # "thinking"

\* a call with include_thinking=False returned the entries of a log with a
\* reasoning block and of a side file with a reasoning block
C6_Witness ==
    /\ pc = "returned" /\ ~include_thinking
    /\ \E i \in 1..Len(Log) : IsAssistantRecord(Log[i]) /\ ReasoningOf(Log[i]) # <<>>
    /\ \E m \in Range(conversation) :
        /\ m.role = "subagent" /\ m.messages # <<>>
        /\ \E e \in Range(Dir[<<"agent-", m.agent_id>>]) : ReasoningOf(e) # <<>>

RECURSIVE Sum(_)
Sum(ns) == IF ns = <<>> THEN 0 ELSE Head(ns) + Sum(Tail(ns))

\* the reasoning blocks of the assistant records among the first n lines
AllReasoning(log, n) ==
    Sum([i \in 1..n |->
            IF IsAssistantRecord(log[i]) THEN Len(BlocksOf(log[i], "thinking")) ELSE 0])

\* those with a text, of the records that carry no ExitPlanMode call with a
\* plan
SurfacedReasoning(log, n) ==
    Sum([i \in 1..n |->
            IF IsAssistantRecord(log[i]) /\ ~CarriesPlan(log[i])
            THEN Len(ReasoningOf(log[i])) ELSE 0])

TopLevelThinking(conv) == Len(SelectSeq(conv, LAMBDA m : m.role = "thinking"))

C10_PassesIndependent ==
    /\ pc = "returned" =>
          conversation = returned[<<jsonl_path, <<detailed, include_thinking>>>>].value
    /\ pc = "reading" => Locals = RunPass(Log, lineno, Dir, detailed, include_thinking)

\* a call returned entries a second time, with a pass over the other log
\* since its first return
C10_Witness ==
    /\ pc = "returned" /\ repeat
    /\ <<jsonl_path, <<detailed, include_thinking>>>> \in separated
    /\ \E m \in Range(conversation) : m.role = "subagent"

(***************************************************************************)
(* Properties of extract_bash_commands.                                    *)
(***************************************************************************)
\* block k of entry n is a Bash invocation with a command
CallAt(ents, n, k) ==
    /\ IsAssistantRecord(ents[n].entry) /\ ents[n].entry.content.kind = "list"
    /\ k \in 1..Len(ents[n].entry.content.items)
    /\ IsBashCall(ents[n].entry.content.items[k])

\* the tool_use blocks and the tool_result blocks that carry an identifier
UsesOf(ents, id) ==
    {<<n, k>> \in (1..Len(ents)) \X (1..4) :
        /\ ents[n].entry.type = "assistant" /\ ents[n].entry.content.kind = "list"
        /\ k <= Len(ents[n].entry.content.items)
        /\ ents[n].entry.content.items[k].type = "tool_use"
        /\ ents[n].entry.content.items[k].id = id}

ResultsOf(ents, id) ==
    {<<n, k>> \in (1..Len(ents)) \X (1..4) :
        /\ ents[n].entry.type = "user" /\ ents[n].entry.content.kind = "list"
        /\ k <= Len(ents[n].entry.content.items)
        /\ ents[n].entry.content.items[k].type = "tool_result"
        /\ ents[n].entry.content.items[k].tool_use_id = id}

\* block k of entry n is a Bash invocation, the only invocation of the log
\* with its identifier, and r is the one tool_result block of the log with
\* that identifier, in a later entry
CallWithResult(ents, n, k, r) ==
    /\ CallAt(ents, n, k)
    /\ UsesOf(ents, ents[n].entry.content.items[k].id) = {<<n, k>>}
    /\ ResultsOf(ents, ents[n].entry.content.items[k].id) = {r}
    /\ r[1] > n

\* the invocation of block k of entry n is in the returned list
Listed(ents, n, k) ==
    \E c \in Range(bash_commands) :
        /\ c.command = InputGet(ents[n].entry.content.items[k].input, "command")
        /\ c.timestamp = ents[n].timestamp

ResultText(ents, r) == ents[r[1]].entry.content.items[r[2]].content

\* C8 as stated: a Bash invocation whose own result has a failure marker in
\* its first line is not in the returned list
C8_FailedCommandNeverListed ==
    pc = "bash_returned" =>
        \A n \in 1..Len(entries), k \in 1..4 :
            \A r \in ResultsOf(entries, IF CallAt(entries, n, k)
                                        THEN entries[n].entry.content.items[k].id ELSE "") :
                CallWithResult(entries, n, k, r) /\ HasError(ResultText(entries, r))
                => ~Listed(entries, n, k)

\* C9 as stated: a Bash invocation with a command whose own result has no
\* failure marker in its first line is in the returned list, and the
\* context is empty right after the invocation is taken
C9_SuccessfulCommandListed ==
    /\ pc = "bash_returned" =>
        \A n \in 1..Len(entries), k \in 1..4 :
            \A r \in ResultsOf(entries, IF CallAt(entries, n, k)
                                        THEN entries[n].entry.content.items[k].id ELSE "") :
                CallWithResult(entries, n, k, r) /\ ~HasError(ResultText(entries, r))
                => Listed(entries, n, k)
    /\ (InLoop /\ blockno > 0 /\ CallAt(entries, recno + 1, blockno)) =>
          /\ current_context = <<>>
          /\ pending_bash_commands # <<>>
          /\ pending_bash_commands[Len(pending_bash_commands)].command
                = InputGet(bash_entry.content.items[blockno].input, "command")


(***************************************************************************)
(* Properties of the statistics and of the handling of faults.             *)
(***************************************************************************)
\* the call returned a stats entry
HasStats == conversation # <<>> /\ conversation[Len(conversation)].role = "stats"

\* the content of the stats entry
StatsOf(conv) == conv[Len(conv)].stats

\* the names of the tool_use blocks of the assistant records among the first
\* n lines of a log
RECURSIVE ToolNames(_, _)
ToolNames(log, n) ==
    IF n = 0 THEN <<>>
    ELSE ToolNames(log, n - 1)
         \o (IF IsAssistantRecord(log[n])
             THEN LET uses == BlocksOf(log[n], "tool_use")
                  IN  [i \in 1..Len(uses) |-> uses[i].name]
             ELSE <<>>)

Occurs(names, name) == Len(SelectSeq(names, LAMBDA x : x = name))

\* the sum of the values of a table
RECURSIVE TableSum(_)
TableSum(t) ==
    IF DOMAIN t = {} THEN 0
    ELSE LET k == CHOOSE k \in DOMAIN t : TRUE
         IN  t[k] + TableSum([j \in DOMAIN t \ {k} |-> t[j]])

\* the counters of the statistics s are those of the invocations `names`
CountsMatch(s, names) ==
    /\ s.tool_use_count = Len(names)
    /\ DOMAIN s.tools_used = Range(names)
    /\ \A name \in Range(names) : s.tools_used[name] = Occurs(names, name)
    /\ TableSum(s.tools_used) = s.tool_use_count

\* C11: in detailed mode the stats entry counts the tool_use blocks of all
\* the assistant records that were read, in tool_use_count and, name by
\* name, in tools_used, whose values sum to tool_use_count
C11_ToolCountsAllRecords ==
    pc = "returned" /\ detailed /\ HasStats =>
        CountsMatch(StatsOf(conversation), ToolNames(Log, lineno))

\* a call in detailed mode returned statistics that count the invocations
\* of two assistant records, one of them with a tool of its own
C11_Witness ==
    /\ pc = "returned" /\ detailed /\ HasStats
    /\ StatsOf(conversation).tool_use_count = 2
    /\ DOMAIN StatsOf(conversation).tools_used = {"Task", "Bash"}
    /\ lineno = Len(Log)

\* the place of a model name in the order of sorted()
ModelRank(m) == CHOOSE i \in 1..Len(ModelNames) : ModelNames[i] = m

\* a list of model names in ascending order, none twice
SortedNoDup(ms) ==
    \A i, j \in 1..Len(ms) : i < j => ModelRank(ms[i]) < ModelRank(ms[j])

\* the model names of the assistant records among the first n lines of a log
ModelsIn(log, n) ==
    {log[i].model : i \in {k \in 1..n : IsAssistantRecord(log[k]) /\ log[k].model # ""}}

StatsEntries(conv) == SelectSeq(conv, LAMBDA m : m.role = "stats")

\* C12: a call returns a stats entry if and only if detailed is set and it
\* has another entry to return; there is then one stats entry, the last of
\* the sequence, whose models_used lists in ascending order, each once, the
\* models of the assistant records read, and whose tools_used maps names
\* to positive counts; no stats entry is in the sequence before the return
C12_StatsEntryIffDetailedAndNonEmpty ==
    /\ pc = "reading" => StatsEntries(conversation) = <<>>
    /\ pc = "returned" =>
        /\ StatsEntries(conversation) # <<>>
              <=> (detailed /\ NonStats(conversation) # <<>>)
        /\ Len(StatsEntries(conversation)) <= 1
        /\ StatsEntries(conversation) # <<>> =>
            /\ HasStats
            /\ StatsOf(conversation).models_used \in Seq(Range(ModelNames))
            /\ SortedNoDup(StatsOf(conversation).models_used)
            /\ Range(StatsOf(conversation).models_used) = ModelsIn(Log, lineno)
            /\ \A name \in DOMAIN StatsOf(conversation).tools_used :
                  StatsOf(conversation).tools_used[name] \in Nat \ {0}

\* a call in detailed mode returned entries and, last, a stats entry that
\* lists two models and counts a tool
C12_Witness ==
    /\ pc = "returned" /\ detailed /\ HasStats
    /\ Len(NonStats(conversation)) >= 2
    /\ Len(StatsOf(conversation).models_used) = 2
    /\ DOMAIN StatsOf(conversation).tools_used # {}

\* the types of the records that are not turns of the conversation
SideTypes == {"system", "progress", "file-history-snapshot"}

\* C13: a call with detailed=False has no entry of role system or stats and
\* no entry with a metadata field, and a record of type system, progress or
\* file-history-snapshot gives rise to no entry
C13_NothingSurfacedUnlessDetailed ==
    pc # "idle" /\ ~detailed =>
        /\ \A m \in Range(conversation) :
              m.role \notin {"system", "stats"} /\ ~m.has_metadata
        /\ \A i \in 1..lineno :
              Log[i].type \in SideTypes =>
                  \A m \in Range(conversation) : m.timestamp # i

\* a call with detailed=False returned entries for a log that holds a
\* system record, a progress record and a snapshot record
C13_Witness ==
    /\ pc = "returned" /\ ~detailed
    /\ conversation # <<>>
    /\ \E i \in 1..Len(Log) : Log[i].type = "system"
    /\ \E i \in 1..Len(Log) : Log[i].type \in {"progress", "file-history-snapshot"}

\* the state of a pass over `lines` whose i-th line carries the timestamp
\* stamps[i], from fresh locals
RECURSIVE RunStamped(_, _, _, _, _, _)
RunStamped(lines, stamps, n, dir, d, t) ==
    IF n = 0 THEN InitLocals
    ELSE StepLine(RunStamped(lines, stamps, n - 1, dir, d, t),
                  lines[n], stamps[n], FindSubagentFiles(dir), dir, d, t)

\* the indexes of the lines among the first n of a log that are valid JSON
ValidIndexes(log, n) == SelectSeq([i \in 1..n |-> i], LAMBDA i : log[i].valid)

\* what a call returns for the lines of `log` at the indexes `keep`, each
\* with the timestamp it has in `log`
OutputOf(log, keep, dir, d, t) ==
    LET st == RunStamped([k \in 1..Len(keep) |-> log[keep[k]]], keep, Len(keep), dir, d, t)
    IN  Returned(st.conversation, st.stats, d)

\* C14: what a call returns for a log is what it returns for the log
\* without its lines that are not valid JSON, and it is the empty sequence
\* when no line of the log is valid JSON
C14_MalformedLinesSkipped ==
    pc = "returned" =>
        /\ conversation = OutputOf(Log, ValidIndexes(Log, lineno), Dir,
                                   detailed, include_thinking)
        /\ ValidIndexes(Log, lineno) = <<>> => conversation = <<>>

\* a call returned entries of a line before and of a line after a line
\* that is not valid JSON
C14_Witness ==
    /\ pc = "returned"
    /\ \E j \in 1..lineno :
          /\ ~Log[j].valid
          /\ \E m \in Range(conversation) : m.role # "stats" /\ m.timestamp < j
          /\ \E m \in Range(conversation) : m.role # "stats" /\ m.timestamp > j

\* C15: a record whose handling raises an exception other than a decode
\* error does not end the call: the loop goes on to the next line, and a
\* call on a file that can be read returns after the last line with the
\* entries of all the records, each handled in its turn
C15_RaisingRecordDoesNotAbort ==
    /\ [][HasLine /\ Raises(entry) =>
            pc' = "reading" /\ lineno' = lineno + 1]_vars
    /\ [](pc = "returned" /\ fails_at[jsonl_path] = -1 =>
            /\ lineno = Len(Log)
            /\ NonStats(conversation)
                  = RunPass(Log, Len(Log), Dir, detailed, include_thinking).conversation)

\* a call returned an entry of a record that comes after a record whose
\* handling raised
C15_Witness ==
    /\ pc = "returned"
    /\ \E i \in 1..lineno :
          /\ Raises(Log[i])
          /\ \E m \in Range(conversation) : m.role # "stats" /\ m.timestamp > i

\* C16: a call on a file that cannot be opened or read to its end returns
\* the empty sequence, with no stats entry
C16_UnreadableFileGivesNothing ==
    pc = "returned" /\ fails_at[jsonl_path] # -1 => conversation = <<>>

(***************************************************************************)
(* Properties of plans, questions and delegations.                         *)
(***************************************************************************)
\* the entries that line i gave rise to
EntriesOf(conv, i) == SelectSeq(conv, LAMBDA m : m.role # "stats" /\ m.timestamp = i)

\* the plan of the first ExitPlanMode invocation of a record that has one
PlanInput(e) ==
    LET calls == SelectSeq(BlocksOf(e, "tool_use"),
                           LAMBDA b : b.name = "ExitPlanMode" /\ InputGet(b.input, "plan") # <<>>)
    IN  InputGet(calls[1].input, "plan")

\* C17: an assistant record with an ExitPlanMode invocation whose plan is
\* not empty gives rise to one entry: of role plan, with the plan of the
\* invocation as its content and the path of the record's slug; to no
\* assistant and no thinking entry
C17_ExitPlanModeGivesOnePlanEntry ==
    pc # "idle" =>
        \A i \in 1..lineno :
            IsAssistantRecord(Log[i]) /\ CarriesPlan(Log[i]) =>
                /\ Len(EntriesOf(conversation, i)) = 1
                /\ EntriesOf(conversation, i)[1].role = "plan"
                /\ EntriesOf(conversation, i)[1].content = PlanInput(Log[i])
                /\ EntriesOf(conversation, i)[1].plan_content = PlanInput(Log[i])
                /\ EntriesOf(conversation, i)[1].plan_path
                      = IF Log[i].slug = "" THEN <<"~/.claude/plans/unknown.md">>
                        ELSE <<"~/.claude/plans/", Log[i].slug, ".md">>

\* a call with include_thinking returned a plan entry for a record that
\* holds a text and a delegation before its ExitPlanMode invocation, and one
\* for a record that holds a reasoning block
C17_Witness ==
    /\ pc = "returned" /\ include_thinking
    /\ \E i \in 1..lineno :
          /\ Log[i] = PlanAndTask
          /\ Count(conversation, {"plan"}, i) = 1
    /\ \E i \in 1..lineno :
          /\ Log[i] = ExitPlanCall
          /\ Count(conversation, {"plan"}, i) = 1

\* the AskUserQuestion invocations of a record
AsksOf(e) == SelectSeq(BlocksOf(e, "tool_use"), LAMBDA b : b.name = "AskUserQuestion")

\* the record is a user record that carries a tool_result block with the
\* identifier id and a structured answer set that is not empty
AnswersTo(e, id) ==
    /\ IsUserRecord(e)
    /\ \E r \in Range(BlocksOf(e, "tool_result")) : r.tool_use_id = id
    /\ e.toolUseResult.kind = "dict" /\ e.toolUseResult.answers # <<>>

\* the entries of line j are one qa entry with the questions and the
\* answers, and no user or plan entry
AnsweredAt(conv, j, questions, answers) ==
    /\ Count(conv, {"qa"}, j) = 1
    /\ \E m \in Range(conv) :
          /\ m.role = "qa" /\ m.timestamp = j
          /\ m.questions = questions /\ m.answers = answers
    /\ Count(conv, {"user", "plan"}, j) = 0

\* C18: if an assistant record issues an AskUserQuestion invocation and a
\* later user record carries a tool_result block with its identifier and
\* answers, the call returns for that user record one qa entry with the
\* questions of the invocation and those answers, and no user or plan entry
C18_AnsweredQuestionGivesOneQaEntry ==
    pc = "returned" =>
        \A i, j \in 1..Len(Log) : \A b \in Range(AsksOf(Log[i])) :
            i < j /\ IsAssistantRecord(Log[i]) /\ AnswersTo(Log[j], b.id) =>
                AnsweredAt(conversation, j, InputGetList(b.input, "questions"),
                           Log[j].toolUseResult.answers)

\* C18, for the pairs the code correlates: when the line read is a user
\* record with answers whose first tool_result block names a question that
\* is pending, the call appends one qa entry with the pending questions and
\* those answers, no user or plan entry, and the question is pending no more
C18_FirstResultOfPendingQuestion ==
    [][HasLine /\ IsUserRecord(entry)
         /\ BlocksOf(entry, "tool_result") # <<>>
         /\ AnswersTo(entry, BlocksOf(entry, "tool_result")[1].tool_use_id)
         /\ BlocksOf(entry, "tool_result")[1].tool_use_id \in DOMAIN pending_questions
       => /\ AnsweredAt(conversation', lineno + 1,
                        pending_questions[BlocksOf(entry, "tool_result")[1].tool_use_id],
                        entry.toolUseResult.answers)
          /\ BlocksOf(entry, "tool_result")[1].tool_use_id \notin DOMAIN pending_questions'
      ]_vars

\* a call returned the qa entry of a question and its answers
C18_Witness ==
    /\ pc = "returned"
    /\ \E i, j \in 1..Len(Log) :
          /\ i < j /\ Log[i] = AskCall /\ Log[j] = Answer1
          /\ AnsweredAt(conversation, j, Questions1, Answers1)

\* the block b of line i is a Task or AskUserQuestion invocation that is
\* pending in the tables, and no later line issues its identifier again
PendingCall(log, i, b, tasks, questions) ==
    /\ IsAssistantRecord(log[i])
    /\ \/ b.name = "Task" /\ b.id \in DOMAIN tasks
       \/ b.name = "AskUserQuestion" /\ b.id \in DOMAIN questions
    /\ \A k \in (i + 1)..Len(log) :
          \A c \in Range(BlocksOf(log[k], "tool_use")) : c.id # b.id

\* line i issued an invocation that is pending at the end of the log
IssuedPending(i) ==
    \E b \in Range(BlocksOf(Log[i], "tool_use")) :
        PendingCall(Log, i, b, pending_task_tools, pending_questions)

\* the entries of role qa and subagent are those of user records with a
\* tool_result block, and the end of the log adds no entry but the stats
NothingForPending ==
    /\ \A m \in Range(conversation) :
          m.role \in {"qa", "subagent"} =>
              /\ IsUserRecord(Log[m.timestamp])
              /\ BlocksOf(Log[m.timestamp], "tool_result") # <<>>
    /\ \A i \in 1..Len(Log) : IssuedPending(i) => Count(conversation, {"qa", "subagent"}, i) = 0

\* the flattened text of a record
TextOf(e, d) == ExtractTextContent(e.content, d)

\* the text is an approved plan, which gives an entry of role plan
ApprovedPlan(text) == ContainsPlanApproval(text) /\ ParsePlanContent(text).found

\* C19 as stated: a call returns whatever invocations are pending at the
\* end of the log, with no qa or subagent entry for them, and with an
\* assistant entry that holds the text of each record that issued one and
\* has a text
C19_PendingCallsKeepTheirText ==
    pc = "returned" =>
        /\ NothingForPending
        /\ \A i \in 1..Len(Log) :
              IssuedPending(i) /\ Truthy(TextOf(Log[i], detailed)) =>
                  \E m \in Range(conversation) :
                      /\ m.role = "assistant" /\ m.timestamp = i
                      /\ m.content = TextOf(Log[i], detailed)

\* C19 (amended): the same, but the record that issued a pending
\* invocation has an assistant entry with its text only when the text is
\* not blank and the record carries no ExitPlanMode invocation with a plan;
\* with such an invocation it has a plan entry alone, with a blank text no
\* entry; and the end of the log adds nothing but the stats entry
C19_PendingCallsDroppedAtEnd ==
    /\ [][pc = "reading" /\ pc' = "returned" =>
            NonStats(conversation') = conversation]_vars
    /\ [](pc = "returned" =>
            /\ NothingForPending
            /\ \A i \in 1..Len(Log) :
                  IssuedPending(i) =>
                      IF CarriesPlan(Log[i])
                      THEN /\ Count(conversation, {"plan"}, i) = 1
                           /\ Count(conversation, {"assistant"}, i) = 0
                      ELSE IF Truthy(TextOf(Log[i], detailed))
                              /\ ~ApprovedPlan(TextOf(Log[i], detailed))
                      THEN /\ Count(conversation, {"assistant"}, i) = 1
                           /\ \E m \in Range(conversation) :
                                 /\ m.role = "assistant" /\ m.timestamp = i
                                 /\ m.content = TextOf(Log[i], detailed)
                      ELSE Count(conversation, {"assistant"}, i) = 0)

\* a call returned with a Task invocation and a question pending, and with
\* the assistant entries of the records that issued them
C19_Witness ==
    /\ pc = "returned"
    /\ DOMAIN pending_task_tools # {} /\ DOMAIN pending_questions # {}
    /\ \E i, j \in 1..Len(Log) :
          /\ Log[i] = TaskCall /\ IssuedPending(i)
          /\ Count(conversation, {"assistant"}, i) = 1
          /\ Log[j] = AskCall /\ IssuedPending(j)
          /\ Count(conversation, {"assistant"}, j) = 1

(***************************************************************************)
(* extract_tool_operations: the invocations without a result.              *)
(***************************************************************************)
\* block j of line i is an invocation that extract_tool_operations tracks
TrackedAt(i, j) ==
    /\ Log[i].valid /\ Log[i].type = "assistant" /\ Log[i].has_message
    /\ Log[i].role = "assistant" /\ Log[i].content.kind = "list"
    /\ j \in 1..Len(Log[i].content.items)
    /\ LET b == Log[i].content.items[j]
       IN  /\ b.type = "tool_use"
           /\ \/ b.name \in ExtractTools(tool_filter)
              \/ /\ b.name = "Bash" /\ "git" \in ExtractCategories(tool_filter)
                 /\ IsGitCommand(InputGet(b.input, "command"))

\* the positions of the blocks of the log
BlocksOfLog ==
    UNION {{<<i, j>> : j \in 1..Len(Log[i].content.items)} :
           i \in {n \in 1..Len(Log) : Log[n].valid}}

\* a later line holds a result for the identifier
ResultAfter(i, id) ==
    \E m \in (i + 1)..Len(Log) :
        /\ Log[m].valid /\ Log[m].type = "user" /\ Log[m].content.kind = "list"
        /\ \E k \in 1..Len(Log[m].content.items) :
              /\ Log[m].content.items[k].type = "tool_result"
              /\ Log[m].content.items[k].tool_use_id = id

\* a later tracked invocation takes the identifier over
IssuedAgain(i, j, id) ==
    \E p \in BlocksOfLog :
        /\ p[1] > i \/ (p[1] = i /\ p[2] > j)
        /\ TrackedAt(p[1], p[2])
        /\ Log[p[1]].content.items[p[2]].id = id

\* the tracked invocations that wait for a result when the log ends
PendingAtEnd ==
    {p \in BlocksOfLog :
        /\ TrackedAt(p[1], p[2])
        /\ ~ResultAfter(p[1], Log[p[1]].content.items[p[2]].id)
        /\ ~IssuedAgain(p[1], p[2], Log[p[1]].content.items[p[2]].id)}

\* the bucket of the category of an invocation
BucketOf(ops, b) ==
    IF b.name = "Bash" THEN ops.git
    ELSE IF b.name \in {"Read", "Write", "Edit"} THEN ops.file[b.name]
    ELSE IF b.name \in {"Grep", "Glob"} THEN ops.search[b.name]
    ELSE ops.web[b.name]

\* the operation of the invocation at p is in the bucket, without a result
EmittedWithoutResult(ops, p) ==
    LET b      == Log[p[1]].content.items[p[2]]
        bucket == BucketOf(ops, b)
    IN  \E k \in 1..Len(bucket) :
            /\ bucket[k].tool_name = b.name
            /\ bucket[k].tool_use_id = b.id
            /\ bucket[k].timestamp = p[1]
            /\ bucket[k].input = b.input
            /\ bucket[k].result = [NoSummary EXCEPT !.keys = {"status"},
                                                    !.status = "no_result"]

\* C20: when extract_tool_operations returns, every tracked invocation that
\* still waits for a result at the end of the log is in the bucket of its
\* category with the result {status: no_result}: none is dropped for lack
\* of a result.
C20_PendingOperationsEmitted ==
    pc = "tools_returned" => \A p \in PendingAtEnd : EmittedWithoutResult(tool_ops, p)

\* a call that returns a read with its result, and a search and a git
\* command that have none
C20_Witness ==
    /\ pc = "tools_returned"
    /\ \E k \in 1..Len(tool_ops.file.Read) : "success" \in tool_ops.file.Read[k].result.keys
    /\ \E p, q \in PendingAtEnd :
          /\ Log[p[1]].content.items[p[2]].name = "Grep"
          /\ Log[q[1]].content.items[q[2]].name = "Bash"

(***************************************************************************)
(* extract_tool_operations: what the filter lets through.                  *)
(***************************************************************************)
\* the category of each of the seven tools
CategoryOfTool ==
    [Read |-> "file", Write |-> "file", Edit |-> "file", Grep |-> "search", Glob |-> "search",
     WebFetch |-> "web", WebSearch |-> "web"]

\* the filter lists the string, or the category whatever its case
ListsName(x) == \E k \in 1..Len(tool_filter) : tool_filter[k] = x

ListsCategory(c) == \E k \in 1..Len(tool_filter) : LowerName(tool_filter[k]) = c

\* an operation of the tool (or, for is_git, of a git command) is one the
\* filter selects
SelectedByFilter(name, is_git) ==
    IF is_git THEN name = "Bash" /\ ListsCategory("git")
    ELSE /\ name \in DOMAIN CategoryOfTool
         /\ ListsName(name) \/ ListsCategory(CategoryOfTool[name])

\* the operations of a bucket are of its tool, and either nothing restricts
\* them or the filter selects them
BucketFiltered(bucket, name, is_git) ==
    \A k \in 1..Len(bucket) :
        /\ bucket[k].tool_name = name /\ bucket[k].is_git = is_git
        /\ is_git => IsGitCommand(InputGet(bucket[k].input, "command"))
        /\ tool_filter = <<>> \/ SelectedByFilter(name, is_git)

\* every invocation of the seven tools, and every git command, is in its
\* bucket
AllExtracted(ops) ==
    \A p \in BlocksOfLog :
        LET b == Log[p[1]].content.items[p[2]]
        IN  /\ Log[p[1]].type = "assistant" /\ Log[p[1]].has_message
            /\ Log[p[1]].role = "assistant" /\ b.type = "tool_use"
            /\ \/ b.name \in DOMAIN CategoryOfTool
               \/ b.name = "Bash" /\ IsGitCommand(InputGet(b.input, "command"))
            => \E k \in 1..Len(BucketOf(ops, b)) :
                   /\ BucketOf(ops, b)[k].tool_use_id = b.id
                   /\ BucketOf(ops, b)[k].input = b.input

\* C21: with a filter, extract_tool_operations emits only operations the
\* filter selects (a listed tool, a tool of a listed category, git commands
\* when git is listed) and every other bucket stays empty; with no filter
\* every invocation of the seven tools and every git command is extracted.
C21_OnlySelectedOperations ==
    /\ pc \in {"tools", "tools_returned"} =>
          /\ \A name \in DOMAIN CategoryOfTool :
                BucketFiltered(tool_ops[CategoryOfTool[name]][name], name, FALSE)
          /\ BucketFiltered(tool_ops.git, "Bash", TRUE)
    /\ pc = "tools_returned" /\ tool_filter = <<>> => AllExtracted(tool_ops)

\* a call with a filter that lists a tool and git, over a log with a read, a
\* search and a git command: the search and the git command are emitted, the
\* read is not
C21_Witness ==
    /\ pc = "tools_returned"
    /\ tool_filter = <<"Grep", "Git">>
    /\ \E i \in 1..Len(Log) : Log[i] = ReadCall
    /\ tool_ops.search.Grep # <<>> /\ tool_ops.git # <<>>
    /\ tool_ops.file.Read = <<>>

(***************************************************************************)
(* The methods that extract several sessions, run twice.                   *)
(***************************************************************************)
\* the first run has saved the session of the index, the second has written
\* a file for it too
SavedByFirst(i) == <<1, i>> \in written

WrittenAgain(i) == <<2, i>> \in written

\* C22: extract_multiple with overwrite=False, run twice with the same
\* sessions, indices and options, writes in the second run no file for a
\* session the first run saved; with overwrite=True the second run writes
\* the session again.
C22_SecondRunSkipsSavedSessions ==
    method = "conversation" =>
        \A i \in 0..(Len(sessions) - 1) :
            SavedByFirst(i) =>
                /\ ~overwrite => ~WrittenAgain(i)
                /\ overwrite /\ pc = "done" => WrittenAgain(i)

\* what holds of extract_multiple: a second run that writes the session
\* again has looked for a file of another day than the day of the first
\* entry, and with overwrite=True it always writes again
C22_RewritesWhenTheDaysDiffer ==
    method = "conversation" =>
        \A i \in 0..(Len(sessions) - 1) :
            SavedByFirst(i) =>
                /\ ~overwrite /\ WrittenAgain(i) =>
                      \A f \in outputs : f.date # GetDateFromSession(files[sessions[i + 1]])
                /\ overwrite /\ pc = "done" => WrittenAgain(i)

\* the second run of extract_multiple has skipped the session the first run
\* saved
C22_Witness ==
    /\ method = "conversation" /\ ~overwrite
    /\ run = 2 /\ pc = "done"
    /\ SavedByFirst(0) /\ ~WrittenAgain(0) /\ skipped = 1

\* C23: extract_bash_commands_multiple and extract_tool_operations_multiple
\* with overwrite=False, run a second time with the same arguments, count a
\* session whose file the first run saved as skipped and do not write it
\* again.
C23_SecondRunSkipsSavedFiles ==
    method \in {"bash", "tools"} /\ ~overwrite =>
        \A i \in 0..(Len(sessions) - 1) :
            SavedByFirst(i) =>
                /\ ~WrittenAgain(i)
                /\ run = 2 /\ pc = "done" => skipped = 1

\* what holds of the two methods: no run skips a session
C23_NeverSkips == method \in {"bash", "tools"} => skipped = 0

\* the second run of extract_bash_commands_multiple has ended, after a
\* first run that saved the commands of the session
C23_Witness ==
    /\ method = "bash" /\ ~overwrite
    /\ run = 2 /\ pc = "done"
    /\ SavedByFirst(0)

(***************************************************************************)
(* extract_bash_commands: a result that names no pending invocation.       *)
(***************************************************************************)
\* the loop of line 648 is at a tool_result whose identifier is the one of
\* no pending Bash invocation
AtUnmatchedResult ==
    /\ UserBlocks /\ HasBlock /\ item.type = "tool_result"
    /\ \A k \in 1..Len(pending_bash_commands) :
          pending_bash_commands[k].tool_use_id # item.tool_use_id

\* the oldest pending invocation leaves the list, and is listed unless the
\* result reports a failure
PairedWithOldest ==
    /\ pending_bash_commands' = Tail(pending_bash_commands)
    /\ bash_commands' =
          IF HasError(item.content) THEN bash_commands
          ELSE Append(bash_commands,
                      [command   |-> Head(pending_bash_commands).command,
                       context   |-> Head(pending_bash_commands).context,
                       timestamp |-> Head(pending_bash_commands).timestamp])

\* C24: in extract_bash_commands a tool_result whose identifier matches no
\* pending Bash invocation is paired with the oldest invocation still
\* pending, which leaves the pending list; the result is discarded only when
\* nothing is pending.
C24_UnmatchedResultTakesOldest ==
    [][AtUnmatchedResult /\ blockno' = blockno + 1 =>
          IF pending_bash_commands # <<>> THEN PairedWithOldest
          ELSE UNCHANGED <<pending_bash_commands, bash_commands>>]_vars

\* the result of the invocation toolu_1, which is no Bash invocation, has
\* been paired with the older of two pending Bash invocations
C24_Witness ==
    /\ pc = "bash" /\ recno = 2 /\ blockno >= 1
    /\ Len(entries) >= 3
    /\ entries[1].entry = BashCall /\ entries[2].entry = BashCall
    /\ entries[3].entry.content.items[1].tool_use_id = "toolu_1"
    /\ Len(pending_bash_commands) <= 1
    /\ Len(bash_commands) >= 1 /\ bash_commands[1].timestamp = entries[1].timestamp

(***************************************************************************)
(* extract_conversation over logs whose invocations share identifiers,     *)
(* whose results come twice or before the invocation, and whose Task       *)
(* results name the same delegate.                                         *)
(***************************************************************************)
\* an assistant line that asks under the identifier of AskCall again
AskAgain ==
    AssistantEntry(ListContent(<<AskQuestion("toolu_q1", Questions2)>>), "claude-opus")

\* an assistant line with two questions under one identifier
AskSameTwice ==
    AssistantEntry(
        ListContent(<<AskQuestion("toolu_q1", Questions1),
                      AskQuestion("toolu_q1", Questions2)>>),
        "claude-opus")

\* a user line with the result of toolu_q1 and a text, and no answers
Unanswered ==
    UserEntry(ListContent(<<ToolResult("toolu_q1", <<"rejected">>), TextBlock(<<"no">>)>>))

TaskBlock(id, description) ==
    ToolUse("Task", id, <<StrField("description", description),
                          StrField("subagent_type", <<"Explore">>)>>)

\* an assistant line with two delegations under the identifier of TaskCall
TaskSameTwice ==
    AssistantEntry(
        ListContent(<<TaskBlock("toolu_1", <<"Run", " ", "tests">>),
                      TaskBlock("toolu_1", <<"Fix", " ", "bug">>)>>),
        "claude-opus")

\* an assistant line with a delegation under another identifier
TaskOther ==
    AssistantEntry(ListContent(<<TaskBlock("toolu_4", <<"Resume", " ", "a1">>)>>), "claude-opus")

\* a user line with the results of toolu_4 and of toolu_1, which both name
\* the delegate a1
ResultOther ==
    UserEntry(ListContent(<<ToolResult("toolu_4", <<"agentId:", " ", "a1">>),
                            ToolResult("toolu_1", <<"agentId:", " ", "a1">>)>>))

DupLines ==
    {AskAgain, AskSameTwice, Answer1, Unanswered,
     TaskCall, TaskSameTwice, TaskResult, ToolResultOnly, TaskOther, ResultOther}

MaxDupLines == 3

InitDup ==
    /\ tree = <<>>
    /\ content_arg = StrContent(<<>>)
    /\ files \in {("s1" :> log) : log \in UNION {[1..k -> DupLines] : k \in 0..MaxDupLines}}
    /\ fails_at = ("s1" :> -1)
    /\ subagent_dirs = ("s1" :> (<<"agent-", "a1">> :> SideFull))
    /\ returned = [k \in {"s1"} \X Flags |-> NotReturned]
    /\ midnight = 0
    /\ Idle

NextDup ==
    \/ Begin
    \/ HandleUser
    \/ HandleAssistant
    \/ Finish

SpecDup == InitDup /\ [][NextDup]_vars

(***************************************************************************)
(* Properties of the pairing tables.                                       *)
(***************************************************************************)
\* the positions <<line, block>> before line j of the invocations of the
\* tool `name` under the identifier id
InvocationsBefore(log, j, name, id) ==
    {p \in (1..(j - 1)) \X (1..4) :
        /\ IsAssistantRecord(log[p[1]]) /\ log[p[1]].content.kind = "list"
        /\ p[2] <= Len(log[p[1]].content.items)
        /\ log[p[1]].content.items[p[2]].type = "tool_use"
        /\ log[p[1]].content.items[p[2]].name = name
        /\ log[p[1]].content.items[p[2]].id = id}

\* the last of them, in the order of the log
Latest(ps) ==
    CHOOSE p \in ps : \A q \in ps : q[1] < p[1] \/ (q[1] = p[1] /\ q[2] <= p[2])

LatestInput(log, j, name, id) ==
    LET p == Latest(InvocationsBefore(log, j, name, id))
    IN  log[p[1]].content.items[p[2]].input

\* the identifier the answers of a user record are correlated with
AnswerId(e) == ExtractAnswersFromEntry(e).tool_use_id

\* the qa entry is resolved against the latest invocation of its identifier
QaFromLatest(m) ==
    /\ InvocationsBefore(Log, m.timestamp, "AskUserQuestion", AnswerId(Log[m.timestamp])) # {}
    /\ m.questions = InputGetList(LatestInput(Log, m.timestamp, "AskUserQuestion",
                                              AnswerId(Log[m.timestamp])), "questions")

\* the subagent entry is resolved against the latest invocation of the
\* identifier of a tool_result block of its line
SubagentFromLatest(m) ==
    \E r \in Range(BlocksOf(Log[m.timestamp], "tool_result")) :
        /\ InvocationsBefore(Log, m.timestamp, "Task", r.tool_use_id) # {}
        /\ m.description = InputGet(LatestInput(Log, m.timestamp, "Task", r.tool_use_id),
                                    "description")

\* C25 as stated: a table holds one pending entry for an identifier, and a
\* result is resolved against the payload of the latest invocation of its
\* identifier, whether the invocations that share it are in the same
\* assistant record or in different ones
C25_LaterPayloadResolved ==
    /\ \A m \in Range(conversation) :
          /\ m.role = "qa" => QaFromLatest(m)
          /\ m.role = "subagent" => SubagentFromLatest(m)

\* the record holds two AskUserQuestion invocations under one identifier
AsksTwiceUnder(e, id) ==
    Len(SelectSeq(AsksOf(e), LAMBDA b : b.id = id)) > 1

\* what holds of the code: Task invocations replace each other in every
\* case, and questions do when the latest record that asked under the
\* identifier holds one invocation of it
C25_LaterRecordResolved ==
    /\ \A m \in Range(conversation) :
          /\ m.role = "subagent" => SubagentFromLatest(m)
          /\ m.role = "qa" =>
                LET id == AnswerId(Log[m.timestamp])
                    ps == InvocationsBefore(Log, m.timestamp, "AskUserQuestion", id)
                IN  ps # {} /\ (~AsksTwiceUnder(Log[Latest(ps)[1]], id) => QaFromLatest(m))

\* a call returned a qa entry for an answer whose identifier the latest
\* record asked two questions under
C25_Witness ==
    /\ pc = "returned"
    /\ \E m \in Range(conversation) :
          /\ m.role = "qa"
          /\ AsksTwiceUnder(
                Log[Latest(InvocationsBefore(Log, m.timestamp, "AskUserQuestion",
                                             AnswerId(Log[m.timestamp])))[1]],
                AnswerId(Log[m.timestamp]))

\* the identifiers of the tool_result blocks of a record
ResultIds(e) == {r.tool_use_id : r \in Range(BlocksOf(e, "tool_result"))}

\* an invocation that a result of line j can be paired with came before j
InvokedBefore(log, j) ==
    \E id \in ResultIds(log[j]) :
        \/ InvocationsBefore(log, j, "Task", id) # {}
        \/ InvocationsBefore(log, j, "AskUserQuestion", id) # {}

\* an invocation under an identifier of the results of line j comes after j
InvokedAfter(log, j) ==
    \E i \in (j + 1)..Len(log) : \E b \in Range(BlocksOf(log[i], "tool_use")) :
        /\ IsAssistantRecord(log[i])
        /\ b.name \in {"Task", "AskUserQuestion"} /\ b.id \in ResultIds(log[j])

\* C26: a record whose results match no invocation that came before it
\* gives no qa and no subagent entry, whatever comes later in the log; every
\* qa entry belongs to a user record that comes after an AskUserQuestion
\* invocation of the identifier it answers, and every subagent entry to a
\* user record with a tool_result block whose identifier a Task invocation
\* of an earlier record has
C26_ResolutionNeverLooksAhead ==
    pc # "idle" =>
        /\ \A j \in 1..lineno :
              ~InvokedBefore(Log, j) => Count(conversation, {"qa", "subagent"}, j) = 0
        /\ \A m \in Range(conversation) :
              /\ m.role \in {"qa", "subagent"} => IsUserRecord(Log[m.timestamp])
              /\ m.role = "qa" =>
                    InvocationsBefore(Log, m.timestamp, "AskUserQuestion",
                                      AnswerId(Log[m.timestamp])) # {}
              /\ m.role = "subagent" =>
                    \E id \in ResultIds(Log[m.timestamp]) :
                        InvocationsBefore(Log, m.timestamp, "Task", id) # {}

\* a call returned nothing for a record whose result comes before the only
\* invocations of its identifier
C26_Witness ==
    /\ pc = "returned"
    /\ \E j \in 1..Len(Log) :
          /\ IsUserRecord(Log[j]) /\ ResultIds(Log[j]) # {}
          /\ ~InvokedBefore(Log, j) /\ InvokedAfter(Log, j)
          /\ NamesSideFile(Log[j].content.items[1], Dir) \/ AnswerId(Log[j]) # ""
          /\ Count(conversation, {"qa", "subagent"}, j) = 0

\* the user records among the first n lines, after line i, that carry a
\* tool_result block with the identifier id
ResultsSince(log, i, n, id) ==
    {j \in (i + 1)..n : IsUserRecord(log[j]) /\ id \in ResultIds(log[j])}

\* those whose answers the code correlates with id
AnswersSince(log, i, n, id) ==
    {j \in ResultsSince(log, i, n, id) :
        ExtractAnswersFromEntry(log[j]).found /\ AnswerId(log[j]) = id}

\* the line of the latest invocation of `name` under id among the first n
LatestLine(log, n, name, id) == Latest(InvocationsBefore(log, n + 1, name, id))[1]

\* the assistant records before line j that put id in the question table
RegistrationsBefore(log, j, id) ==
    {i \in 1..(j - 1) :
        /\ IsAssistantRecord(log[i])
        /\ ExtractQuestionsFromContent(log[i].content).found
        /\ ExtractQuestionsFromContent(log[i].content).tool_use_id = id}

Last(lines) == CHOOSE i \in lines : \A k \in lines : k <= i

\* line j carries the first result for id since its latest invocation
FirstResultOf(log, j, name, id) ==
    /\ id \in ResultIds(log[j])
    /\ InvocationsBefore(log, j, name, id) # {}
    /\ ResultsSince(log, LatestLine(log, j - 1, name, id), j - 1, id) = {}

\* C27 as stated: no call is pending once a record with a result of its
\* identifier has been processed, and a record whose results all repeat
\* results already processed gives no qa and no subagent entry
C27_RemovedAtFirstResult ==
    pc # "idle" =>
        /\ \A id \in DOMAIN pending_task_tools :
              ResultsSince(Log, LatestLine(Log, lineno, "Task", id), lineno, id) = {}
        /\ \A id \in DOMAIN pending_questions :
              ResultsSince(Log, LatestLine(Log, lineno, "AskUserQuestion", id), lineno, id) = {}
        /\ \A j \in 1..lineno :
              (\A id \in ResultIds(Log[j]) :
                  ~FirstResultOf(Log, j, "Task", id)
                  /\ ~FirstResultOf(Log, j, "AskUserQuestion", id))
              => Count(conversation, {"qa", "subagent"}, j) = 0

\* the identifiers whose pending Task invocation line j resolves
FreshTasks(log, j) == {id \in ResultIds(log[j]) : FirstResultOf(log, j, "Task", id)}

\* the answers of line j are the first that the code correlates with a
\* pending question
FreshAnswer(log, j) ==
    /\ ExtractAnswersFromEntry(log[j]).found
    /\ RegistrationsBefore(log, j, AnswerId(log[j])) # {}
    /\ AnswersSince(log, Last(RegistrationsBefore(log, j, AnswerId(log[j]))), j - 1,
                    AnswerId(log[j])) = {}

\* C27 (amended): a pending Task invocation leaves its table at the first
\* tool_result block with its identifier, whether or not a subagent entry
\* comes of it; a pending question leaves its table at the first record
\* whose answers are correlated with its identifier, and stays when a
\* record carries its result without answers; a record gives at most one
\* subagent entry for each Task invocation it is the first to answer, at
\* most one qa entry when its answers are the first for a pending question,
\* and none otherwise
C27_RemovedWhenResolved ==
    pc # "idle" =>
        /\ \A id \in DOMAIN pending_task_tools :
              ResultsSince(Log, LatestLine(Log, lineno, "Task", id), lineno, id) = {}
        /\ \A id \in DOMAIN pending_questions :
              /\ RegistrationsBefore(Log, lineno + 1, id) # {}
              /\ AnswersSince(Log, Last(RegistrationsBefore(Log, lineno + 1, id)),
                              lineno, id) = {}
        /\ \A j \in 1..lineno :
              /\ Count(conversation, {"subagent"}, j) <= Cardinality(FreshTasks(Log, j))
              /\ Count(conversation, {"qa"}, j) <= (IF FreshAnswer(Log, j) THEN 1 ELSE 0)

\* a call returned nothing for a result that names a delegate with a side
\* file, because an earlier result of the identifier named none
C27_Witness ==
    /\ pc = "returned"
    /\ \E i, j \in 1..Len(Log) : \E id \in ResultIds(Log[j]) :
          /\ i < j /\ IsUserRecord(Log[j])
          /\ FirstResultOf(Log, i, "Task", id) /\ IsUserRecord(Log[i])
          /\ Count(conversation, {"subagent"}, i) = 0
          /\ i = Min(ResultsSince(Log, LatestLine(Log, j - 1, "Task", id), j - 1, id))
          /\ \E k \in 1..Len(Log[j].content.items) :
                ResultAt(Log, j, k, id) /\ NamesSideFile(Log[j].content.items[k], Dir)
          /\ Count(conversation, {"qa", "subagent"}, j) = 0
          /\ id \notin DOMAIN pending_task_tools

\* the calls of extract_subagent_conversation for the side file of a
\* delegate: line 359 makes the call and lines 365-373 append one subagent
\* entry, with the agent_id of the file, for each call
LoadsOf(conv, agent_id) ==
    Len(SelectSeq(conv, LAMBDA m : m.role = "subagent" /\ m.agent_id = agent_id))

\* C28 as stated: a pass loads the side file of a delegate at most once
C28_SideFileLoadedOnce ==
    \A agent_id \in {"a1", "a2"} : LoadsOf(conversation, agent_id) <= 1

\* a call returned two subagent entries of the delegate a1, for the results
\* of two Task invocations
C28_Witness ==
    /\ pc = "returned"
    /\ LoadsOf(conversation, "a1") = 2
    /\ \E j \in 1..Len(Log) : Cardinality(FreshTasks(Log, j)) = 2

(***************************************************************************)
(* extract_conversation over logs whose texts hold the marker of an       *)
(* approved plan, with and without a plan that can be parsed.              *)
(***************************************************************************)
BannerText == <<"<rec>", " ">> \o ApprovalBanner

\* the marker, the path of the saved plan, a title and a body
ApprovedText ==
    BannerText \o <<"\n", " ", " ">> \o SavedTo \o
    <<" ", "~/.claude/plans/p.md", " ", "<dot>", " ", "/plan", " ", "to", " ", "edit", "\n",
      " ", " ", "Title", "\n", " ", " ", "Body">>

\* a user line with the marker alone
UserBannerOnly == UserEntry(StrContent(BannerText))

\* a user line with the path of the saved plan and nothing after its line
UserNoBody ==
    UserEntry(StrContent(SavedTo \o <<" ", "~/.claude/plans/p.md", " ", "<dot>", " ",
                                      "/plan", " ", "to", " ", "edit">>))

\* a user line whose text is an approved plan
UserApproved == UserEntry(StrContent(ApprovedText))

\* an assistant line with a reasoning block and a text that names the plans
\* directory with a file that is not a .md file
AssistantBadPath ==
    AssistantEntry(
        ListContent(<<ThinkingBlock(<<"hm">>),
                      TextBlock(SavedTo \o <<" ", "~/.claude/plans/p", "\n", "Title">>)>>),
        "claude-opus")

\* an assistant line whose text is an approved plan
AssistantApproved == AssistantEntry(ListContent(<<TextBlock(ApprovedText)>>), "claude-opus")

\* an assistant line with the marker alone and the end of planning
BannerAndExit ==
    AssistantEntry(
        ListContent(<<TextBlock(BannerText),
                      ToolUse("ExitPlanMode", "toolu_3",
                              <<StrField("plan", <<"Step", " ", "one">>)>>)>>),
        "claude-opus")

\* a user line with the result of toolu_q1, the marker alone, and answers
AnswerWithBanner ==
    Answer(<<ToolResult("toolu_q1", <<"answered">>), TextBlock(BannerText)>>, Answers1)

PlanLines ==
    {UserSays, UserBannerOnly, UserNoBody, UserApproved, AssistantBadPath,
     AssistantApproved, BannerAndExit, AskCall, AnswerWithBanner}

MaxPlanLines == 3

InitPlans ==
    /\ tree = <<>>
    /\ content_arg = StrContent(<<>>)
    /\ files \in {("s1" :> log) : log \in UNION {[1..k -> PlanLines] : k \in 0..MaxPlanLines}}
    /\ fails_at = ("s1" :> -1)
    /\ subagent_dirs = ("s1" :> NoSideFiles)
    /\ returned = [k \in {"s1"} \X Flags |-> NotReturned]
    /\ midnight = 0
    /\ Idle

NextPlans ==
    \/ Begin
    \/ HandleUser
    \/ HandleAssistant
    \/ Finish

SpecPlans == InitPlans /\ [][NextPlans]_vars

\* the flattened text of a user or assistant record, as its branch takes it
\* (lines 393 and 484)
BranchText(e, d) == IF IsUserRecord(e) THEN TextOf(e, FALSE) ELSE TextOf(e, d)

BranchRole(e) == IF IsUserRecord(e) THEN "user" ELSE "assistant"

\* the text holds the marker and no plan can be parsed from it
MarkerWithoutPlan(text) == ContainsPlanApproval(text) /\ ~ParsePlanContent(text).found

\* line i gave one entry of the role of its record, with the flattened text
\* as its content, and no plan entry
EmittedRaw(conv, log, i, d) ==
    /\ Count(conv, {BranchRole(log[i])}, i) = 1
    /\ \E m \in Range(conv) :
          /\ m.role = BranchRole(log[i]) /\ m.timestamp = i
          /\ m.content = BranchText(log[i], d)
    /\ Count(conv, {"plan"}, i) = 0

TakenBefore(log, i) ==
    \/ IsUserRecord(log[i]) /\ FreshAnswer(log, i)
    \/ IsAssistantRecord(log[i]) /\ CarriesPlan(log[i])

SideLines ==
    {UserSays, BashCall, UserApproved, ExitPlanCall, AskCall, Answer1, TurnDuration, Malformed}

MaxSideLines == 3

InitSide ==
    /\ tree = <<>>
    /\ content_arg = StrContent(<<>>)
    /\ files = ("s1" :> <<TaskCall, TaskResult>>)
    /\ fails_at = ("s1" :> -1)
    /\ subagent_dirs \in
          {("s1" :> (<<"agent-", "a1">> :> side)) :
              side \in UNION {[1..k -> SideLines] : k \in 0..MaxSideLines}}
    /\ returned = [k \in {"s1"} \X Flags |-> NotReturned]
    /\ midnight = 0
    /\ Idle

NextSide ==
    \/ Begin
    \/ HandleUser
    \/ HandleAssistant
    \/ Finish

SpecSide == InitSide /\ [][NextSide]_vars

\* the side file of a delegate
SideFileOf(agent_id) == Dir[<<"agent-", agent_id>>]

\* what extract_conversation emits for the lines of a side file, as
\* (role, content, timestamp) triples of its user, assistant and thinking
\* entries
ParentPassOver(lines, d, t) ==
    LET conv == SelectSeq(RunPass(lines, Len(lines), NoSideFiles, d, t).conversation,
                          LAMBDA m : m.role \in {"user", "assistant", "thinking"})
    IN  [k \in 1..Len(conv) |-> SubMessage(conv[k].role, conv[k].content, conv[k].timestamp)]

TakenAsPlanOrAnswer(lines, i, d) ==
    \/ /\ IsUserRecord(lines[i]) \/ IsAssistantRecord(lines[i])
       /\ ApprovedPlan(BranchText(lines[i], d))
    \/ IsAssistantRecord(lines[i]) /\ CarriesPlan(lines[i])
    \/ IsUserRecord(lines[i]) /\ FreshAnswer(lines, i)

PlainSideFile(lines, d) == \A i \in 1..Len(lines) : ~TakenAsPlanOrAnswer(lines, i, d)

\* the nested messages hold the flattened text of line i under the role of
\* its record
NestedText(messages, lines, i, d) ==
    \E k \in 1..Len(messages) :
        /\ messages[k].role = BranchRole(lines[i]) /\ messages[k].timestamp = i
        /\ messages[k].content = BranchText(lines[i], d)

UserBlank == UserEntry(StrContent(<<" ">>))

TurnLines ==
    {UserSays, UserBlank, UserApproved, ToolResultOnly, AskCall, Answer1, TaskResult, BadResult}

MaxTurnLines == 3

InitTurns ==
    /\ tree = <<>>
    /\ content_arg = StrContent(<<>>)
    /\ files \in {("s1" :> log) : log \in UNION {[1..k -> TurnLines] : k \in 0..MaxTurnLines}}
    /\ fails_at = ("s1" :> -1)
    /\ subagent_dirs = ("s1" :> NoSideFiles)
    /\ returned = [k \in {"s1"} \X Flags |-> NotReturned]
    /\ midnight = 0
    /\ Idle

NextTurns ==
    \/ Begin
    \/ HandleUser
    \/ HandleAssistant
    \/ Finish

SpecTurns == InitTurns /\ [][NextTurns]_vars

\* the user records among the first n lines that gave a user or plan entry
TurnsEmitted(conv, log, n) ==
    {i \in 1..n : IsUserRecord(log[i]) /\ Count(conv, {"user", "plan"}, i) >= 1}

\* the user records among the first n lines with a flattened text that is
\* not blank, whose answers resolve no pending question and whose handling
\* does not raise
TurnsSpoken(log, n) ==
    {i \in 1..n :
        /\ IsUserRecord(log[i]) /\ Truthy(TextOf(log[i], FALSE))
        /\ ~FreshAnswer(log, i) /\ ~Raises(log[i])}

\* the record holds tool_result blocks and nothing else
OnlyToolResults(e) ==
    /\ e.content.kind = "list" /\ e.content.items # <<>>
    /\ \A b \in Range(e.content.items) : b.type = "tool_result"

BashAbort ==
    /\ InLoop /\ ~bash_entry.object
    /\ pc' = "bash_returned"
    /\ UNCHANGED <<renaming, flat, multi, tools, disk, pass, jsonl_path, bash>>

\* lines 774 and 868-871: the operations that wait for a result are not
\* put in their buckets
ToolsAbort ==
    /\ ToolsInLoop /\ ~entries[recno + 1].entry.object
    /\ pc' = "tools_returned"
    /\ UNCHANGED <<renaming, flat, multi, disk, pass, jsonl_path, bash, tools>>

CorruptLines == {BashCall, ToolResultOnly, ReadCall, ReadResult, NotAnObject, Malformed}

MaxCorruptLines == 3

InitCorrupt ==
    /\ tree = <<>>
    /\ content_arg = StrContent(<<>>)
    /\ files \in {("s1" :> log) : log \in UNION {[1..k -> CorruptLines] : k \in 0..MaxCorruptLines}}
    /\ fails_at = ("s1" :> -1)
    /\ subagent_dirs = ("s1" :> NoSideFiles)
    /\ returned = [k \in {"s1"} \X Flags |-> NotReturned]
    /\ midnight = 0
    /\ Idle

NextCorrupt ==
    \/ BashStart
    \/ BashTextBlock
    \/ BashToolUse
    \/ BashToolResult
    \/ BashSkipBlock
    \/ BashEndEntry
    \/ BashAbort
    \/ BashReturn
    \/ ToolsStart
    \/ ToolsAssistant
    \/ ToolsUser
    \/ ToolsAbort
    \/ ToolsReturn

SpecCorrupt == InitCorrupt /\ [][NextCorrupt]_vars

\* the line is not valid JSON, or decodes to a value that is not an object
Corrupt(e) == ~e.valid \/ ~e.object

\* line i holds a Bash invocation, line j a result of its identifier that
\* shows no error, and every other line of the log satisfies `other`
BashPairAmong(log, i, j, b, other(_)) ==
    /\ i < j /\ IsAssistantRecord(log[i]) /\ IsUserRecord(log[j])
    /\ b \in Range(BlocksOf(log[i], "tool_use")) /\ IsBashCall(b)
    /\ \E r \in Range(BlocksOf(log[j], "tool_result")) :
          r.tool_use_id = b.id /\ ~HasError(r.content)
    /\ \A k \in 1..Len(log) : k \notin {i, j} => other(log[k])

\* the command of the invocation b of line i is in the list
Captured(commands, i, b) ==
    \E c \in Range(commands) :
        c.command = InputGet(b.input, "command") /\ c.timestamp = i

\* C32 as stated: lines that are not valid JSON and decoded values of an
\* unexpected shape are skipped: a Bash invocation and its successful
\* result are captured whatever corrupt lines stand around them, and with
\* no filter every invocation of the seven tools is in its bucket
C32_CorruptRecordsSkipped ==
    /\ pc = "bash_returned" =>
          \A i, j \in 1..Len(Log) : \A b \in Range(BlocksOf(Log[i], "tool_use")) :
              BashPairAmong(Log, i, j, b, Corrupt) => Captured(bash_commands, i, b)
    /\ pc = "tools_returned" /\ tool_filter = <<>> => AllExtracted(tool_ops)

NotValid(e) == ~e.valid

\* what holds of the code: the lines that are not valid JSON are skipped,
\* and a value that is not an object ends the loop where it stands
C32_InvalidLinesSkipped ==
    /\ pc = "bash_returned" =>
          /\ \A i, j \in 1..Len(Log) : \A b \in Range(BlocksOf(Log[i], "tool_use")) :
                BashPairAmong(Log, i, j, b, NotValid) => Captured(bash_commands, i, b)
          /\ recno < Len(entries) => ~entries[recno + 1].entry.object
    /\ pc = "tools_returned" =>
          /\ tool_filter = <<>> /\ (\A k \in 1..Len(Log) : Log[k].valid => Log[k].object)
                => AllExtracted(tool_ops)
          /\ recno < Len(entries) => ~entries[recno + 1].entry.object

\* a call of each extractor returned with a Bash command and its result, or
\* a tool invocation, left unread behind a value that is not an object
C32_Witness ==
    \/ /\ pc = "bash_returned" /\ bash_commands = <<>>
       /\ \E i, j \in 1..Len(Log) : \E b \in Range(BlocksOf(Log[i], "tool_use")) :
             BashPairAmong(Log, i, j, b, Corrupt)
    \/ /\ pc = "tools_returned" /\ tool_filter = <<>> /\ ~AllExtracted(tool_ops)

(***************************************************************************)
(* _extract_text_content called on its own, on a content of any shape: a   *)
(* string, a list of blocks (text blocks with a text, an empty text or a   *)
(* null under "text", an invocation, a result and a block of another type  *)
(* that both carry a "text"), or a value that is neither.                  *)
(***************************************************************************)
ResultWithText == [ToolResult("t1", <<"out">>) EXCEPT !.text = <<"kept", " ", "apart">>]

ImageWithText == [Block("image") EXCEPT !.text = <<"Should", " ", "ignore">>]

FlatBlocks ==
    {TextBlock(<<"First", " ", "part">>), TextBlock(<<"Second">>), TextBlock(<<>>),
     NullTextBlock, ToolUse("Bash", "t1", <<StrField("command", <<"ls">>)>>),
     ResultWithText, ImageWithText}

MaxBlocks == 3

\* str(None) and str({"some": "dict"})
Literals == {<<"None">>, <<"{'some':", " ", "'dict'}">>}

Contents ==
    {StrContent(t) : t \in {<<>>, <<"Hello,", " ", "world!">>}}
    \cup {ListContent(l) : l \in UNION {[1..k -> FlatBlocks] : k \in 0..MaxBlocks}}
    \cup {OtherContent(l) : l \in Literals}

InitText ==
    /\ tree = <<>>
    /\ content_arg \in Contents
    /\ files = ("s1" :> <<>>)
    /\ fails_at = ("s1" :> -1)
    /\ subagent_dirs = ("s1" :> NoSideFiles)
    /\ returned = [k \in {"s1"} \X Flags |-> NotReturned]
    /\ midnight = 0
    /\ Idle

\* one call: it returns a text, or the exception of line 965 leaves it
Flatten ==
    /\ pc = "idle" /\ ~text_result.called
    /\ \E d \in BOOLEAN :
         /\ detailed' = d
         /\ text_result' =
              IF TextRaises(content_arg, d)
              THEN [called |-> TRUE, raised |-> TRUE, value |-> <<>>]
              ELSE [called |-> TRUE, raised |-> FALSE,
                    value |-> ExtractTextContent(content_arg, d)]
    /\ UNCHANGED <<renaming, content_arg, multi, tools, disk, bash, pc, jsonl_path, include_thinking,
                   lineno, conversation, pending_questions, pending_task_tools, stats,
                   subagent_files, returned, repeat, separated>>

NextText == Flatten

SpecText == InitText /\ [][NextText]_vars

\* the blocks of type "text", in the order of the list
TextTyped(items) == SelectSeq(items, LAMBDA b : b.type = "text")

\* C33: in non-detailed mode the text returned for a list (whose text blocks
\* hold strings) is the texts of its blocks of type "text", in the order of
\* the list and joined by newlines: a tool_result block and a block of any
\* other type add nothing, whatever they carry; a string is returned as it is.
C33_ListJoinsTextBlocks ==
    (text_result.called /\ ~detailed /\ ~text_result.raised) =>
        /\ content_arg.kind = "list" =>
             LET t == TextTyped(content_arg.items)
             IN  text_result.value = Join(<<"\n">>, [i \in 1..Len(t) |-> t[i].text])
        /\ content_arg.kind = "str" => text_result.value = content_arg.text

C33_Witness ==
    /\ text_result.called /\ ~detailed /\ ~text_result.raised
    /\ content_arg = ListContent(<<TextBlock(<<"First", " ", "part">>), ResultWithText,
                                   TextBlock(<<"Second">>)>>)
    /\ text_result.value = <<"First", " ", "part", "\n", "Second">>

\* C34: _extract_text_content never raises: whatever the content is, the
\* call returns.
C34_NeverRaises == text_result.called => ~text_result.raised

\* the call raises for a list with a text block whose "text" is no string,
\* and for nothing else; a content that is neither a string nor a list gives
\* its literal form
C34_RaisesOnNonStringTextOnly ==
    text_result.called =>
        /\ text_result.raised <=>
             /\ content_arg.kind = "list"
             /\ \E i \in 1..Len(content_arg.items) : content_arg.items[i] = NullTextBlock
        /\ content_arg.kind = "other" => text_result.value = content_arg.text

C34_Witness ==
    /\ text_result.called /\ text_result.raised
    /\ content_arg = ListContent(<<TextBlock(<<"Second">>), NullTextBlock>>)

(***************************************************************************)
(* Records whose handling raises midway: a user record whose toolUseResult *)
(* is a string, after its Task results were resolved; an assistant record  *)
(* with a null under "text", after its statistics, registrations and       *)
(* thinking entries; and a user record with a null text, which raises      *)
(* before anything was done.                                               *)
(***************************************************************************)
BadReply ==
    AssistantEntry(
        ListContent(<<ThinkingBlock(<<"hmm">>), NullTextBlock,
                      ToolUse("Task", "toolu_1",
                              <<StrField("description", <<"Explore", " ", "codebase">>),
                                StrField("subagent_type", <<"Explore">>)>>)>>),
        "claude-haiku")

UserBadText == UserEntry(ListContent(<<NullTextBlock>>))

PartialLines == {UserSays, TaskCall, TaskResult, BadResult, BadReply, UserBadText}

MaxPartialLines == 3

InitPartial ==
    /\ tree = <<>>
    /\ content_arg = StrContent(<<>>)
    /\ files \in {("s1" :> log) : log \in UNION {[1..k -> PartialLines] : k \in 0..MaxPartialLines}}
    /\ fails_at = ("s1" :> -1)
    /\ subagent_dirs = ("s1" :> (<<"agent-", "a1">> :> SideFull))
    /\ returned = [k \in {"s1"} \X Flags |-> NotReturned]
    /\ midnight = 0
    /\ Idle

NextPartial ==
    \/ Begin
    \/ HandleUser
    \/ HandleAssistant
    \/ Finish

SpecPartial == InitPartial /\ [][NextPartial]_vars

\* C35: a record whose handling raises contributes nothing: right after it
\* the entries, the pending questions, the pending Task calls and the
\* statistics are what they were before it.
C35_RaisingRecordLeavesNoTrace ==
    (pc = "reading" /\ lineno >= 1 /\ Raises(Log[lineno])) =>
        Locals = RunPass(Log, lineno - 1, Dir, detailed, include_thinking)

\* what a raising record never leaves: a user, assistant, plan or qa entry,
\* or a turn
C35_RaisingRecordGivesNoTextEntry ==
    (pc = "reading" /\ lineno >= 1 /\ Raises(Log[lineno])) =>
        /\ \A m \in Range(conversation) :
              m.timestamp = lineno => m.role \in {"thinking", "subagent"}
        /\ stats.turn_count
              = RunPass(Log, lineno - 1, Dir, detailed, include_thinking).stats.turn_count

\* a record that raised left an entry, a registration or a count behind
C35_Witness ==
    /\ pc = "reading" /\ lineno >= 1 /\ Log[lineno] = BadReply
    /\ detailed /\ include_thinking
    /\ \E m \in Range(conversation) : m.role = "thinking" /\ m.timestamp = lineno
    /\ "toolu_1" \in DOMAIN pending_task_tools
    /\ stats.tool_use_count
          = RunPass(Log, lineno - 1, Dir, detailed, include_thinking).stats.tool_use_count + 1

\* a user record that raised left the entry of a delegation behind, and
\* took its Task call off the pending table
C35_WitnessUser ==
    /\ pc = "reading" /\ lineno >= 2 /\ Log[lineno] = BadResult
    /\ \E m \in Range(conversation) : m.role = "subagent" /\ m.timestamp = lineno
    /\ "toolu_1" \notin DOMAIN pending_task_tools

(***************************************************************************)
(* The context of a Bash command: logs with commentary before, between and *)
(* after invocations, a blank text, a text with blanks around it, another  *)
(* tool's invocation, a Bash invocation without a command, and user        *)
(* records in between.                                                     *)
(***************************************************************************)
Narrate ==
    AssistantEntry(
        ListContent(<<TextBlock(<<"First.">>), TextBlock(<<" ">>),
                      ToolUse("Read", "toolu_5", <<StrField("file_path", <<"a.py">>)>>)>>),
        "claude-opus")

TwoCalls ==
    AssistantEntry(
        ListContent(<<TextBlock(<<" ", "Let", " ", "me", " ", "check.", "\n">>),
                      ToolUse("Bash", "toolu_2", <<StrField("command", <<"ls">>)>>),
                      TextBlock(<<"Then">>),
                      ToolUse("bash", "toolu_3", <<StrField("command", <<"pwd">>)>>)>>),
        "claude-opus")

EmptyBash ==
    AssistantEntry(
        ListContent(<<TextBlock(<<"Try">>),
                      ToolUse("Bash", "toolu_4", <<StrField("command", <<>>)>>)>>),
        "claude-opus")

ContextLines == {Narrate, TwoCalls, EmptyBash, AssistantSays, UserSays, TaskResult}

MaxContextLines == 3

InitContext ==
    /\ tree = <<>>
    /\ content_arg = StrContent(<<>>)
    /\ files \in {("s1" :> log) :
                    log \in UNION {[1..k -> ContextLines] : k \in 0..MaxContextLines}}
    /\ fails_at = ("s1" :> -1)
    /\ subagent_dirs = ("s1" :> NoSideFiles)
    /\ returned = [k \in {"s1"} \X Flags |-> NotReturned]
    /\ midnight = 0
    /\ Idle

NextContext ==
    \/ BashStart
    \/ BashTextBlock
    \/ BashToolUse
    \/ BashStringContent
    \/ BashToolResult
    \/ BashSkipBlock
    \/ BashEndEntry
    \/ BashReturn

SpecContext == InitContext /\ [][NextContext]_vars

\* an assistant record with a message of its role
Speaks(e) ==
    e.valid /\ e.object /\ e.type = "assistant" /\ e.has_message /\ e.role = "assistant"

\* the places of a log where an assistant says something or invokes a tool,
\* in reading order: <<line, block>>, block 0 for a content that is a string
PlacesOf(log, i) ==
    IF Speaks(log[i]) /\ log[i].content.kind = "list"
    THEN [b \in 1..Len(log[i].content.items) |-> <<i, b>>]
    ELSE IF Speaks(log[i]) /\ log[i].content.kind = "str" THEN << <<i, 0>> >>
    ELSE <<>>

RECURSIVE ReadingOrder(_, _)
ReadingOrder(log, n) ==
    IF n = 0 THEN <<>> ELSE ReadingOrder(log, n - 1) \o PlacesOf(log, n)

\* the text at a place, without the blanks around it (empty when the place
\* holds no text)
SaidAt(log, place) ==
    IF place[2] = 0 THEN Strip(log[place[1]].content.text)
    ELSE IF log[place[1]].content.items[place[2]].type = "text"
    THEN Strip(log[place[1]].content.items[place[2]].text)
    ELSE <<>>

\* the place holds a Bash invocation with a command
CapturedAt(log, place) ==
    /\ place[2] # 0
    /\ LET b == log[place[1]].content.items[place[2]]
       IN  b.type = "tool_use" /\ b.name \in {"Bash", "bash"} /\ InputGet(b.input, "command") # <<>>

\* the texts said since the later of the last record of type "user" and the
\* last Bash invocation with a command before the place, joined by blank lines
SaidSince(log, place) ==
    LET order == ReadingOrder(log, place[1])
        k     == CHOOSE n \in 1..Len(order) : order[n] = place
        calls == {n \in 1..(k - 1) : CapturedAt(log, order[n])}
        users == {j \in 1..(place[1] - 1) : log[j].valid /\ log[j].object /\ log[j].type = "user"}
        from  == IF calls = {} THEN 0 ELSE Max(calls)
        said  == SelectSeq([n \in 1..(k - 1) |-> n],
                           LAMBDA n : /\ n > from
                                      /\ \A j \in users : j < order[n][1]
                                      /\ SaidAt(log, order[n]) # <<>>)
    IN  Join(<<"\n", "\n">>, [n \in 1..Len(said) |-> SaidAt(log, order[said[n]])])

\* the commands captured so far: those that wait for a result and those listed
CapturedCommands ==
    {[command |-> c.command, context |-> c.context, timestamp |-> c.timestamp] :
        c \in Range(pending_bash_commands) \cup Range(bash_commands)}

\* C36: the context of every captured Bash invocation is the non-empty texts
\* the assistant said since the later of the most recent user record and the
\* most recent captured Bash invocation, in order and joined by blank lines;
\* nothing said before a user record in between is part of it.
C36_ContextIsTextSinceUserOrCapture ==
    pc \in {"bash", "bash_returned"} =>
        \A c \in CapturedCommands :
            \E b \in 1..Len(Log[c.timestamp].content.items) :
                /\ CapturedAt(Log, <<c.timestamp, b>>)
                /\ InputGet(Log[c.timestamp].content.items[b].input, "command") = c.command
                /\ c.context = SaidSince(Log, <<c.timestamp, b>>)

\* commentary, a user record, then two invocations in one record: the first
\* carries what was said after the user record, the second what was said
\* after the first
C36_Witness ==
    /\ pc = "bash_returned"
    /\ Log = <<Narrate, TaskResult, TwoCalls>>
    /\ [command |-> <<"ls">>, context |-> <<"Let", " ", "me", " ", "check.">>, timestamp |-> 3]
          \in CapturedCommands
    /\ [command |-> <<"pwd">>, context |-> <<"Then">>, timestamp |-> 3] \in CapturedCommands

(***************************************************************************)
(* extract_tool_operations: every operation once, in its own bucket.       *)
(***************************************************************************)
\* the operations of all the buckets
AllOps(ops) ==
    ops.file.Read \o ops.file.Write \o ops.file.Edit \o ops.search.Grep \o ops.search.Glob
    \o ops.web.WebFetch \o ops.web.WebSearch \o ops.git

\* the tracked invocations of the log
TrackedBlocks == {p \in BlocksOfLog : TrackedAt(p[1], p[2])}

\* the tracked invocation at p shares its identifier with no other
DistinctId(p) ==
    \A q \in TrackedBlocks :
        Log[q[1]].content.items[q[2]].id = Log[p[1]].content.items[p[2]].id => q = p

\* C37: when extract_tool_operations returns, every tracked invocation whose
\* identifier no other tracked invocation has is in the buckets once: in the
\* bucket of its category and tool (git for a Bash command), with its name,
\* input and line, and with a summary when a later record holds a result for
\* it and the no_result marker when none does; the buckets hold no more
\* operations than the log has tracked invocations.
C37_EveryOperationOnceInItsBucket ==
    pc = "tools_returned" =>
        /\ Len(AllOps(tool_ops)) <= Cardinality(TrackedBlocks)
        /\ \A p \in TrackedBlocks :
              DistinctId(p) =>
                  LET b   == Log[p[1]].content.items[p[2]]
                      all == AllOps(tool_ops)
                      own == BucketOf(tool_ops, b)
                  IN  /\ Cardinality({k \in 1..Len(all) : all[k].tool_use_id = b.id}) = 1
                      /\ \E k \in 1..Len(own) :
                            /\ own[k].tool_use_id = b.id
                            /\ own[k].tool_name = b.name
                            /\ own[k].input = b.input
                            /\ own[k].timestamp = p[1]
                            /\ own[k].is_git = (b.name = "Bash")
                            /\ IF ResultAfter(p[1], b.id)
                               THEN "success" \in own[k].result.keys
                               ELSE own[k].result = [NoSummary EXCEPT !.keys = {"status"},
                                                                      !.status = "no_result"]

\* a call that returns a search and a git command with their results and a
\* read without one, each once
C37_Witness ==
    /\ pc = "tools_returned"
    /\ Log = <<ReadCall, SearchCall, GitResult>>
    /\ Len(AllOps(tool_ops)) = 3
    /\ Len(tool_ops.git) = 1 /\ "success" \in tool_ops.git[1].result.keys
    /\ Len(tool_ops.search.Grep) = 1 /\ "success" \in tool_ops.search.Grep[1].result.keys
    /\ Len(tool_ops.file.Read) = 1 /\ tool_ops.file.Read[1].result.status = "no_result"

(***************************************************************************)
(* The count of delegations in the statistics.                             *)
(***************************************************************************)
\* the entries of role subagent
SubagentEntriesIn(conv) == SelectSeq(conv, LAMBDA m : m.role = "subagent")

\* C38: in detailed mode the subagent_count of the stats entry is the number
\* of entries of role subagent in the returned sequence.
C38_SubagentCountIsSubagentEntries ==
    (pc = "returned" /\ detailed /\ HasStats) =>
        StatsOf(conversation).subagent_count = Len(SubagentEntriesIn(conversation))

\* a detailed call that returns two subagent entries, and one that resolved a
\* Task result that names no delegate
C38_Witness ==
    /\ pc = "returned" /\ detailed /\ HasStats
    /\ StatsOf(conversation).subagent_count = 2
    /\ Len(SubagentEntriesIn(conversation)) = 2

C38_WitnessNoDelegate ==
    /\ pc = "returned" /\ detailed /\ HasStats
    /\ Log = <<TaskCall, ToolResultOnly, TaskResult>>
    /\ StatsOf(conversation).subagent_count = 0

(***************************************************************************)
(* rename_conversations(root_dir, execute), a file of sorted(files) a      *)
(* step.  A name is a list of tokens; a date is one token.  What a name    *)
(* holds is a record: kind "file" for a regular file and "dangling" for a  *)
(* symbolic link to nothing; origin, the path the file had when the call   *)
(* started; and the place (0: nowhere) and the fields of the first line    *)
(* of the file that matches the Date: pattern.                             *)
(***************************************************************************)
DateTokens == {"2025-01-01", "2025-01-02"}

ConversationName(date, suffix) == <<"claude-conversation-", date, "-">> \o suffix \o <<".md">>

\* f"{date}-{hour}_{minute}-{suffix}.md" (line 84)
NewFilename(date, hour, minute, suffix) ==
    <<date, "-", hour, "_", minute, "-">> \o suffix \o <<".md">>

\* the glob claude-conversation-*.md (line 53)
MatchesPattern(name) ==
    Len(name) >= 2 /\ name[1] = "claude-conversation-" /\ name[Len(name)] = ".md"

NoSuffix == <<>>

\* extract_suffix_from_filename (lines 36-45); NoSuffix stands for None
ExtractSuffixFromFilename(name) ==
    IF /\ Len(name) >= 5 /\ name[1] = "claude-conversation-" /\ name[2] \in DateTokens
       /\ name[3] = "-" /\ name[Len(name)] = ".md"
    THEN SubSeq(name, 4, Len(name) - 1)
    ELSE NoSuffix

\* the lines extract_datetime_from_file reads (line 24)
HeaderLines == 10

\* extract_datetime_from_file (lines 15-33): found is FALSE for None
ExtractDatetimeFromFile(f) ==
    IF f.kind = "file" /\ f.date_line \in 1..HeaderLines
    THEN [found |-> TRUE, date |-> f.date, hour |-> f.hour, minute |-> f.minute]
    ELSE [found |-> FALSE, date |-> "", hour |-> "", minute |-> ""]

\* Path.exists(): a symbolic link is followed
PathExists(t, path) == path \in DOMAIN t /\ t[path].kind = "file"

\* Path.rename(target): the target name is replaced by the file
RenameFile(t, path, target) ==
    [q \in (DOMAIN t \ {path}) \cup {target} |-> IF q = target THEN t[path] ELSE t[q]]

\* lines 87-88: the target is there, and is another path
TargetTaken(t, path, target) == PathExists(t, target) /\ target # path

\* the files of the trees: two conversations of the same suffix and one with
\* no date in its name, a name of the new form and a note, and a directory
\* below with a conversation and a name of the new form
Conv1 == ConversationName("2025-01-01", <<"a0">>)

Conv2 == ConversationName("2025-01-02", <<"a0">>)

Draft == <<"claude-conversation-", "draft", ".md">>

Renamed1 == NewFilename("2025-01-01", "10", "00", <<"a0">>)

Notes == <<"notes", ".md">>

\* the paths in the order sorted() gives them
PathOrder ==
    << <<".", Renamed1>>, <<".", Conv1>>, <<".", Conv2>>, <<".", Draft>>, <<".", Notes>>,
       <<"sub", Renamed1>>, <<"sub", Conv1>> >>

Holds(kind, date_line, date, hour, minute) ==
    [kind |-> kind, origin |-> <<>>, date_line |-> date_line, date |-> date, hour |-> hour,
     minute |-> minute]

\* a Date: line on the third line, one on the last line read, one on the
\* line after it, and none
Headers ==
    {Holds("file", 3, "2025-01-01", "10", "00"), Holds("file", 10, "2025-01-02", "09", "30"),
     Holds("file", 11, "2025-01-01", "10", "00"), Holds("file", 0, "", "", "")}

\* what a path may hold when the call starts
MayHold(path) ==
    IF MatchesPattern(path[2]) THEN Headers
    ELSE {Holds("file", 0, "", "", ""), Holds("dangling", 0, "", "", "")}

MaxFiles == 3

Trees ==
    UNION {{[p \in paths |-> [h[p] EXCEPT !.origin = p]] :
                h \in {g \in [paths -> Headers \cup MayHold(<<".", Notes>>)] :
                          \A p \in paths : g[p] \in MayHold(p)}} :
           paths \in {ps \in SUBSET Range(PathOrder) : Cardinality(ps) <= MaxFiles}}

InitRename ==
    /\ tree \in Trees
    /\ content_arg = StrContent(<<>>)
    /\ files = ("s1" :> <<>>)
    /\ fails_at = ("s1" :> -1)
    /\ subagent_dirs = ("s1" :> NoSideFiles)
    /\ returned = [k \in {"s1"} \X Flags |-> NotReturned]
    /\ midnight = 0
    /\ Idle

\* lines 52-62: the files are listed and sorted
RenameStart ==
    /\ pc = "idle" /\ tree_before = <<>>
    /\ execute' \in BOOLEAN
    /\ to_rename' = SelectSeq(PathOrder, LAMBDA p : p \in DOMAIN tree /\ MatchesPattern(p[2]))
    /\ tree_before' = tree
    /\ success_count' = 0 /\ skipped_count' = 0 /\ error_count' = 0
    /\ pc' = "renaming"
    /\ UNCHANGED <<tree, flat, multi, tools, disk, pass, bash, jsonl_path>>

\* lines 64-110: one file of the loop
RenameOne ==
    /\ pc = "renaming" /\ to_rename # <<>>
    /\ LET filepath == Head(to_rename)
           suffix   == ExtractSuffixFromFilename(filepath[2])
           dt       == ExtractDatetimeFromFile(tree[filepath])
           target   == <<filepath[1], NewFilename(dt.date, dt.hour, dt.minute, suffix)>>
       IN  IF suffix = NoSuffix \/ ~dt.found \/ TargetTaken(tree, filepath, target)
              \/ target[2] = filepath[2]
           THEN /\ skipped_count' = skipped_count + 1
                /\ UNCHANGED <<tree, success_count, error_count>>
           ELSE IF execute
           THEN \/ /\ tree' = RenameFile(tree, filepath, target)
                   /\ success_count' = success_count + 1
                   /\ UNCHANGED <<skipped_count, error_count>>
                \/ /\ error_count' = error_count + 1
                   /\ UNCHANGED <<tree, success_count, skipped_count>>
           ELSE /\ success_count' = success_count + 1
                /\ UNCHANGED <<tree, skipped_count, error_count>>
    /\ to_rename' = Tail(to_rename)
    /\ UNCHANGED <<tree_before, execute, flat, multi, tools, disk, pass, bash, pc, jsonl_path>>

\* lines 112-121
RenameReturn ==
    /\ pc = "renaming" /\ to_rename = <<>>
    /\ pc' = "renamed"
    /\ UNCHANGED <<renaming, flat, multi, tools, disk, pass, bash, jsonl_path>>

NextRename ==
    \/ RenameStart
    \/ RenameOne
    \/ RenameReturn

SpecRename == InitRename /\ [][NextRename]_vars

\* the paths the files of a tree came from
Origins(t) == {t[p].origin : p \in DOMAIN t}

\* C39: rename_conversations never overwrites or loses a file: without
\* execute the tree stays as it was; with execute the tree keeps its number
\* of files, every file of the start is still there, under its name or a new
\* one, and a file sits under a new name only where no name was before.
C39_NothingOverwrittenOrLost ==
    pc \in {"renaming", "renamed"} =>
        /\ ~execute => tree = tree_before
        /\ execute =>
              /\ Cardinality(DOMAIN tree) = Cardinality(DOMAIN tree_before)
              /\ Origins(tree) = DOMAIN tree_before
              /\ \A p \in DOMAIN tree : tree[p].origin # p => p \notin DOMAIN tree_before

\* the regular files of a tree
RegularFiles(t) == {p \in DOMAIN t : t[p].kind = "file"}

\* what holds of the regular files: none is lost or replaced, a file is
\* moved only to a name that no regular file had or has taken, and without
\* execute nothing changes at all
C39_NoRegularFileOverwrittenOrLost ==
    pc \in {"renaming", "renamed"} =>
        /\ ~execute => tree = tree_before
        /\ Cardinality(RegularFiles(tree)) = Cardinality(RegularFiles(tree_before))
        /\ {tree[p].origin : p \in RegularFiles(tree)} = RegularFiles(tree_before)
        /\ \A p \in DOMAIN tree :
              tree[p].origin # p =>
                  /\ p \notin RegularFiles(tree_before)
                  /\ tree[p].origin[1] = p[1]
        /\ \A p \in DOMAIN tree \ RegularFiles(tree) : tree[p] = tree_before[p]

\* a call with execute replaced a dangling link by a conversation: the tree
\* holds one name less than at the start
C39_Witness ==
    /\ pc = "renamed" /\ execute
    /\ <<".", Renamed1>> \in DOMAIN tree_before
    /\ tree_before[<<".", Renamed1>>].kind = "dangling"
    /\ tree[<<".", Renamed1>>].origin = <<".", Conv1>>
    /\ Cardinality(DOMAIN tree) < Cardinality(DOMAIN tree_before)

\* a call with execute renamed one of two conversations with the same target
\* and left the other under its name
C39_WitnessCollision ==
    /\ pc = "renamed" /\ execute
    /\ {<<".", Renamed1>>, <<".", Conv2>>} \subseteq DOMAIN tree
    /\ tree[<<".", Renamed1>>].origin = <<".", Conv1>>
    /\ tree[<<".", Conv2>>].date_line = 3
    /\ tree[<<".", Conv2>>].date = "2025-01-01"
    /\ skipped_count = 1 /\ success_count = 1
=============================================================================
